---- MODULE Spec2Model ----
(***************************************************************************)
(* Model of the LX-D02 thermal printer driver (rusq/thermoprint).          *)
(*                                                                         *)
(* The print session: printPackets starts the dispatch loop runFSM, which  *)
(* feeds events to transition; transition spawns the init handshake        *)
(* (sendInitSequence), the begin task and the packet streamers             *)
(* (printBuffer); the link layer is send / sendAndWait, the inbound side   *)
(* notificationCallback and worker.                                        *)
(***************************************************************************)
EXTENDS Integers, Sequences, FiniteSets, TLC

(* ------------------------------ bounds -------------------------------- *)
\* number of packets of a job (len(p.buffer))
NPackets == 2
\* number of times the environment acts on a run: a device notification is
\* enqueued for the worker, a link write fails (for send: after its retries),
\* or a caller's cancellation token fires
MaxDisturb == 1
\* number of print calls made on the driver instance
MaxJobs == 2
\* number of notifications enqueued for the worker in a run of SpecDevice
MaxNotif == 2

\* largest image height handed to Serialise
MaxHeight == 5
\* largest number of raw blocks handed to Enumerate
MaxBlocks == 3
\* number of events sent to the FSM of an IPP job
MaxEvents == 4

(* ------------------------- program constants -------------------------- *)
\* LXD02Rasteriser: Width, LinesPerPacket, Terminator
LineWidth == 384
LinesPerPacket == 2
Terminator == 0
DefaultThreshold == 128
Threshold == DefaultThreshold
maxRetries == 3
eventChCap == 10
notifyChCap == 10
defaultEnergy == 2

(* ------------------------------ variables ----------------------------- *)
VARIABLES
  state,         \* p.state
  stateMu,       \* p.stateMu: 0 when free, else the dispatch loop holding it
  job,           \* number of printPackets calls made so far
  callerPc,      \* the caller of printPackets: "idle" or "wait"
  result,        \* result[j]: what call j returned: "none", "nil" or "error"
  ctxDone,       \* ctxDone[j]: the context of call j is cancelled
  eventCh,       \* eventCh[j]: content of the event channel made by call j
  loop,          \* loop[j]: the runFSM goroutine started by call j
  printCancel,   \* p.printCancel: 0 (nil) or the streamer whose cancel it is
  streamers,     \* the printBuffer tasks, in spawn order
  waitingPrefix, \* p.waitingPrefix (<<>> is nil)
  responseCh,    \* p.responseCh: "nil" or the waiter whose channel it is
  chanBuf,       \* chanBuf[w]: content of the response channel made by w
  saw,           \* saw[w]: the sendAndWait call of waiter w
  initStep,      \* sendInitSequence: index of the current command, 0 = not run
  beginPc,       \* the task spawned on InitComplete
  notifyCh,      \* content of the notification channel
  workerPc,      \* the worker goroutine: "run" or "stuck"
  wire,          \* every frame written to the link, in order
  acked,         \* the response frames handed to a waiter, in order
  nNotif,        \* notifications enqueued so far
  nFail,         \* failed writes so far
  hist,          \* observations of the run the properties refer to
  image,         \* the image handed to Serialise ("none": no call)
  packets,       \* the result Serialise returned, in a set ({}: not called)
  call,          \* the library or driver call made on the image, its arguments
  out,           \* what that call returned, in a set ({}: not returned yet)
  ippJob,        \* the IPP Job: sm (the FSM's current state), State,
                 \* StateReasons, buffer
  ippPrinter,    \* the state of the job's Printer
  ippPc,         \* the process callback: "idle", or "print" inside Print
  ippEvt,        \* the last call of sm.Event: its event and its error
  nEvt           \* calls of sm.Event made so far

vars == <<state, stateMu, job, callerPc, result, ctxDone, eventCh, loop,
          printCancel, streamers, waitingPrefix, responseCh, chanBuf, saw,
          initStep, beginPc, notifyCh, workerPc, wire, acked, nNotif, nFail,
          hist, image, packets, call, out, ippJob, ippPrinter, ippPc,
          ippEvt, nEvt>>

\* the variables of the IPP job
ippVars == <<ippJob, ippPrinter, ippPc, ippEvt, nEvt>>

\* the variables of the print session
sessionVars ==
  <<state, stateMu, job, callerPc, result, ctxDone, eventCh, loop,
    printCancel, streamers, waitingPrefix, responseCh, chanBuf, saw,
    initStep, beginPc, notifyCh, workerPc, wire, acked, nNotif, nFail, hist>>

Jobs == 1..MaxJobs

\* how often the environment has acted so far
Disturb == nNotif + nFail + Cardinality({j \in Jobs : ctxDone[j]})
Waiters == {"init", "begin", "end"}

(* ------------------------------ frames -------------------------------- *)
\* a prefix test that compares the first byte only
HasPrefixFirstByte(value, prefix) ==
  /\ Len(value) >= 1
  /\ Len(prefix) >= 1
  /\ value[1] = prefix[1]

\* bytes.HasPrefix
HasPrefix(value, prefix) ==
  /\ Len(value) >= Len(prefix)
  /\ SubSeq(value, 1, Len(prefix)) = prefix

\* the notification kinds (prefix as uint16)
ntStatus == 23042
ntRetransmit == 23045
ntFinished == 23046
ntCooldown == 23047
ntHold == 23048

\* notification(uint16(value[0])<<8 | uint16(value[1]))
notification(value) == value[1] * 256 + value[2]

\* int(data[2])<<8 | int(data[3]), 0 for a short frame
extractRetryPacketIndex(data) ==
  IF Len(data) < 4 THEN 0 ELSE data[3] * 256 + data[4]

\* parseStatus: err for a wrong prefix or a short frame, else the NoPaper flag
parseStatus(data) ==
  IF ~HasPrefix(data, <<90, 2>>) \/ Len(data) < 6
  THEN [err |-> TRUE, NoPaper |-> FALSE]
  ELSE [err |-> FALSE, NoPaper |-> data[4] # 0]

\* LXD02Rasteriser.PrefixFunc
PrefixFunc(packetIndex) ==
  <<85, (packetIndex \div 256) % 256, packetIndex % 256>>

\* p.buffer: packet i (0-based) as loaded by loadBuffer; the 96 payload
\* bytes between prefix and terminator are not looked at by the session
buffer == [i \in 0..(NPackets - 1) |-> PrefixFunc(i) \o <<0>>]

\* the four commands of sendInitSequence
initSeq ==
  << <<90, 1, 0, 0, 0, 0, 0, 0, 0, 0, 0, 0>>,
     <<90, 10, 181, 124, 76, 184, 174, 112, 81, 230, 211, 6>>,
     <<90, 11, 102, 59, 98, 140, 26, 105, 191, 84, 116, 76>>,
     <<90, 12, defaultEnergy>> >>

\* m := byte((buflen >> 8) & 0xFF); n := byte(buflen & 0xFF)
LengthField(buflen) == <<(buflen \div 256) % 256, buflen % 256>>

\* []byte{0x5a, 0x04, m, n, 0x00, 0x00}
beginCmd == <<90, 4>> \o LengthField(NPackets) \o <<0, 0>>

\* []byte{0x5a, 0x04, m, n, 0x01, 0x00}
finalCmd == <<90, 4>> \o LengthField(NPackets) \o <<1, 0>>

\* the 5A 05 <hi> <lo> frame asking for packet k
RetransmitFrame(k) == <<90, 5, (k \div 256) % 256, k % 256>>

\* the frames the device sends in a session: the responses to the commands,
\* Hold, Finished, a status frame with paper-out, Retransmit for each packet
DeviceFrames ==
  { <<90, 1>>, <<90, 10>>, <<90, 11>>, <<90, 12>>, <<90, 4>>,
    <<90, 8>>, <<90, 6>>, <<90, 2, 50, 1, 0, 0>> }
  \cup { RetransmitFrame(k) : k \in 0..(NPackets - 1) }

\* further frames: Cooldown, a frame of unknown kind, a status frame without
\* paper-out, a status frame shorter than 6 bytes, a Retransmit frame without
\* index bytes and one for an index past the last packet
OddFrames ==
  { <<90, 7>>, <<90, 9>>, <<90, 2, 50, 0, 0, 0>>, <<90, 2, 50, 1>>,
    <<90, 5>>, RetransmitFrame(NPackets) }

IsPacket(f) == f[1] = 85
PacketIndex(f) == f[2] * 256 + f[3]
\* the image packets on the wire, as indices, in write order
RECURSIVE PacketsOf(_)
PacketsOf(w) ==
  IF w = <<>> THEN <<>>
  ELSE IF IsPacket(Head(w)) THEN <<PacketIndex(Head(w))>> \o PacketsOf(Tail(w))
  ELSE PacketsOf(Tail(w))

(* ----------------------------- rasteriser ----------------------------- *)
\* the images handed to Serialise: bounds at (0,0), Dx = w, Dy = h, and
\* the pixels all white, all black, alternating, or greys around the
\* threshold
Images ==
  [w : {0, 1, 9, 383, 384, 385}, h : 0..MaxHeight,
   pat : {"light", "dark", "checker", "grey"}]

\* An image is a record with its size [w, h] (bounds at (0,0)) and what
\* its pixels are: a source pattern pat, or the image of which it was made
\* by ResizeToFit ("canvas", "scaled"), by DitherThresholdFn ("threshold",
\* with t) or by ditherimg ("dithered").
Black == 0
White == 255

RECURSIVE At(_, _, _)
RECURSIVE PixelBit(_, _, _, _)

\* ColorToGray of a grey pixel read as RGBA: (299r + 587g + 114b)/1000 >> 8
\* of the 16-bit channels
ColorToGray(c) ==
  LET c16 == c * 257
  IN ((299 * c16 + 587 * c16 + 114 * c16) \div 1000) \div 256

\* the grey level of pixel (x, y), img.At(x, y); outside the bounds At
\* gives the zero colour
At(img, x, y) ==
  IF ~(x \in 0..(img.w - 1) /\ y \in 0..(img.h - 1)) THEN 0
  ELSE CASE img.pat = "light" -> White
         [] img.pat = "dark" -> Black
         [] img.pat = "checker" -> (IF (x + y) % 2 = 0 THEN White ELSE Black)
         [] img.pat = "grey" -> 120 + ((x + 3 * y) % 16)
         \* ResizeToFit: the canvas filled with white, then the source
         \* copied to its upper left corner
         [] img.pat = "canvas" ->
              (IF x < img.of.w /\ y < img.of.h
               THEN At(img.of, x, y) ELSE White)
         \* ResizeToFit: draw.CatmullRom.Scale of a source whose pixels
         \* are all equal (only such sources are scaled): every weighted
         \* sum of equal pixels is that pixel
         [] img.pat = "scaled" -> At(img.of, 0, 0)
         \* DitherThresholdFn: black where PixelBit is on, else white
         [] img.pat = "threshold" ->
              (IF PixelBit(img.of, x, y, img.t) THEN Black ELSE White)
         \* ditherimg: error diffusion onto the palette black, white of a
         \* source whose pixels are black or white (only such sources
         \* are dithered): the nearest colour, no error left to diffuse
         [] img.pat = "dithered" ->
              (IF 2 * At(img.of, x, y) < Black + White
               THEN Black ELSE White)

\* a pixel test that does not look at the image bounds
PixelBitUnbounded(img, x, y, threshold) ==
  ColorToGray(At(img, x, y))
    < (IF threshold = 0 THEN DefaultThreshold ELSE threshold)

\* a pixel test with the comparison the wrong way round
PixelBitInverted(img, x, y, threshold) ==
  LET t == IF threshold = 0 THEN DefaultThreshold ELSE threshold
  IN IF y >= img.h THEN FALSE
     ELSE IF x >= img.w THEN FALSE
     ELSE ColorToGray(At(img, x, y)) >= t

\* bitmap.PixelBit: padded lines and columns past the image are off,
\* dark pixels (gray < threshold) are on
PixelBit(img, x, y, threshold) ==
  LET t == IF threshold = 0 THEN DefaultThreshold ELSE threshold
  IN IF y >= img.h THEN FALSE
     ELSE IF x >= img.w THEN FALSE
     ELSE ColorToGray(At(img, x, y)) < t

\* a line packed with the first pixel in the lowest bit
rasteriseLineLSBFirst(img, y) ==
  LET bit(x) == IF PixelBit(img, x, y, Threshold)
                THEN 2 ^ (x % 8) ELSE 0
  IN [b \in 1..(LineWidth \div 8) |->
        LET x0 == 8 * (b - 1)
        IN bit(x0) + bit(x0 + 1) + bit(x0 + 2) + bit(x0 + 3)
           + bit(x0 + 4) + bit(x0 + 5) + bit(x0 + 6) + bit(x0 + 7)]

\* rasteriseLine: lineBytes[x/8] |= 1 << (7 - x%8) for every pixel that is on
rasteriseLine(img, y) ==
  LET bit(x) == IF PixelBit(img, x, y, Threshold)
                THEN 2 ^ (7 - (x % 8)) ELSE 0
  IN [b \in 1..(LineWidth \div 8) |->
        LET x0 == 8 * (b - 1)
        IN bit(x0) + bit(x0 + 1) + bit(x0 + 2) + bit(x0 + 3)
           + bit(x0 + 4) + bit(x0 + 5) + bit(x0 + 6) + bit(x0 + 7)]

\* a padding that only makes the height even
PaddedHeightEvenOnly(h) == IF h % 2 # 0 THEN h + 1 ELSE h

\* the height padded for 2-line packets: +1 when odd, +2 when even
PaddedHeight(h) == IF h % 2 # 0 THEN h + 1 ELSE h + 2

\* width > lineWidthPixels: the image is refused
exceedsLineWidth(img) == img.w > LineWidth

\* numPackets := height / linesPerMsg, the length of the slice returned
numPackets(img) == PaddedHeight(img.h) \div LinesPerPacket

\* GenericRasteriser.Serialise with the fields of LXD02Rasteriser
Serialise(img) ==
  IF exceedsLineWidth(img)
  THEN [err |-> TRUE, packets |-> <<>>]
  ELSE LET row(packetIndex) ==
             PrefixFunc(packetIndex)
               \o rasteriseLine(img, packetIndex * 2)
               \o rasteriseLine(img, packetIndex * 2 + 1)
               \o <<Terminator>>
       IN [err |-> FALSE,
           packets |-> [n \in 1..numPackets(img) |-> row(n - 1)]]

(* ------------------------- resize and dither -------------------------- *)
\* the positions of a w x h image with bounds at (0,0)
Pixels(w, h) == (0..(w - 1)) \X (0..(h - 1))

\* a resize that keeps only narrower images as they are
ResizeToFitNarrower(img, targetWidth) ==
  IF img.w < targetWidth
  THEN [w |-> targetWidth, h |-> img.h, pat |-> "canvas", of |-> img]
  ELSE [w |-> targetWidth, h |-> (img.h * targetWidth) \div img.w,
        pat |-> "scaled", of |-> img]

\* bitmap.ResizeToFit
ResizeToFit(img, targetWidth) ==
  IF img.w <= targetWidth
  THEN LET targetHeight == img.h
       IN [w |-> targetWidth, h |-> targetHeight,
           pat |-> "canvas", of |-> img]
  ELSE LET targetHeight == (img.h * targetWidth) \div img.w
       IN [w |-> targetWidth, h |-> targetHeight,
           pat |-> "scaled", of |-> img]

\* bitmap.DitherThresholdFn(threshold) applied to img
DitherThresholdFn(threshold, img) ==
  LET t == IF threshold = 0 THEN DefaultThreshold ELSE threshold
  IN [w |-> img.w, h |-> img.h, pat |-> "threshold", of |-> img, t |-> t]

\* ditherimg (dAtkinson) applied to img
ditherimg(img) ==
  [w |-> img.w, h |-> img.h, pat |-> "dithered", of |-> img]

\* bitmap.IsDocument: more than 85% of the pixels are dark or light
IsDocument(img, darkThreshold, lightThreshold) ==
  LET all == Pixels(img.w, img.h)
      gray(p) == ColorToGray(At(img, p[1], p[2]))
      darkPixelCount == Cardinality({p \in all : gray(p) < darkThreshold})
      lightPixelCount == Cardinality({p \in all : gray(p) >= lightThreshold})
      totalPixelCount == Cardinality(all)
  IN IF totalPixelCount = 0 THEN FALSE
     ELSE (darkPixelCount + lightPixelCount) * 100 > 85 * totalPixelCount

\* GenericRasteriser.ResizeAndDither with the fields of LXD02Rasteriser
ResizeAndDither(src, autoDither) ==
  LET resized == ResizeToFit(src, LineWidth)
  IN IF autoDither /\ IsDocument(resized, 50, 200) THEN resized
     ELSE ditherimg(resized)

(* ------------------------------ events -------------------------------- *)
Evt(k, d) == [kind |-> k, data |-> d]
NoEvt == Evt("none", <<>>)

(* ------------------------------- Init --------------------------------- *)
IdleLoop == [pc |-> "none", ch |-> 0, evt |-> NoEvt, ret |-> FALSE, dch |-> 0]
IdleSaw == [pc |-> "idle", cmd |-> <<>>, sel |-> "nil"]

InitSession ==
  /\ state = "Idle"
  /\ stateMu = 0
  /\ job = 0
  /\ callerPc = "idle"
  /\ result = [j \in Jobs |-> "none"]
  /\ ctxDone = [j \in Jobs |-> FALSE]
  /\ eventCh = [j \in Jobs |-> <<>>]
  /\ loop = [j \in Jobs |-> IdleLoop]
  /\ printCancel = 0
  /\ streamers = <<>>
  /\ waitingPrefix = <<>>
  /\ responseCh = "nil"
  /\ chanBuf = [w \in Waiters |-> <<>>]
  /\ saw = [w \in Waiters |-> IdleSaw]
  /\ initStep = 0
  /\ beginPc = "none"
  /\ notifyCh = <<>>
  /\ workerPc = "run"
  /\ wire = <<>>
  /\ acked = <<>>
  /\ nNotif = 0
  /\ nFail = 0
  /\ hist = [doneSends |-> [j \in Jobs |-> 0],
             cancelAt |-> -1,
             retrK |-> -1,
             retrAt |-> -1,
             rxFinished |-> FALSE,
             stateAtCall |-> "Idle",
             initFailed |-> FALSE,
             endFailed |-> FALSE,
             paperOut |-> "no",
             rx |-> <<>>,
             fsm |-> <<>>]

\* createJob: the job is pending, its FSM starts in pending
createJob ==
  /\ ippJob = [sm |-> "Pending", State |-> "Pending",
               StateReasons |-> <<"job-incoming", "job-data-insufficient">>,
               buffer |-> "nil"]
  /\ ippPrinter = "idle"
  /\ ippPc = "idle"
  /\ ippEvt = [event |-> "none", err |-> FALSE]
  /\ nEvt = 0

NoCall == [op |-> "none"]
Init ==
  /\ InitSession
  /\ createJob
  /\ image = "none"
  /\ packets = {}
  /\ call = NoCall
  /\ out = {}

(* --------------------------- printPackets ----------------------------- *)
\* printPackets up to its select: new channels, loadBuffer, go runFSM, Start.
\* p.state is left as it is.  A dispatch loop of an earlier call that has not
\* yet evaluated p.eventCh for its next select may pick up the new channel.
printPackets(limit) ==
  /\ callerPc = "idle"
  /\ job < limit
  /\ \E recapture \in SUBSET {j \in Jobs : loop[j].pc = "select"} :
       loop' = [j \in Jobs |->
                  IF j = job + 1
                  THEN [IdleLoop EXCEPT !.pc = "select", !.ch = job + 1]
                  ELSE IF j \in recapture
                       THEN [loop[j] EXCEPT !.ch = job + 1]
                       ELSE loop[j]]
  /\ job' = job + 1
  /\ callerPc' = "wait"
  /\ eventCh' = [eventCh EXCEPT ![job + 1] = <<Evt("Start", <<>>)>>]
  /\ hist' = [hist EXCEPT !.stateAtCall = state]
  /\ UNCHANGED <<ippVars, image, packets, call, out,
                 state, stateMu, result, ctxDone, printCancel, streamers,
                 waitingPrefix, responseCh, chanBuf, saw, initStep, beginPc,
                 notifyCh, workerPc, wire, acked, nNotif, nFail>>

\* the caller's cancellation token fires
ctxCancel(j) ==
  /\ j <= job
  /\ ~ctxDone[j]
  /\ Disturb < MaxDisturb
  /\ ctxDone' = [ctxDone EXCEPT ![j] = TRUE]
  /\ UNCHANGED <<ippVars, image, packets, call, out,
                 state, stateMu, job, callerPc, result, eventCh, loop,
                 printCancel, streamers, waitingPrefix, responseCh, chanBuf,
                 saw, initStep, beginPc, notifyCh, workerPc, wire, acked,
                 nNotif, nFail, hist>>

\* printPackets, select case <-ctx.Done(): send Cancel, return an error
printPacketsCtxDone ==
  /\ callerPc = "wait"
  /\ ctxDone[job]
  /\ Len(eventCh[job]) < eventChCap
  /\ eventCh' = [eventCh EXCEPT ![job] = Append(@, Evt("Cancel", <<>>))]
  /\ result' = [result EXCEPT ![job] = "error"]
  /\ callerPc' = "idle"
  /\ UNCHANGED <<ippVars, image, packets, call, out,
                 state, stateMu, job, ctxDone, loop, printCancel,
                 streamers, waitingPrefix, responseCh, chanBuf, saw, initStep,
                 beginPc, notifyCh, workerPc, wire, acked, nNotif, nFail, hist>>

(* ----------------------------- transition ----------------------------- *)
\* calling p.printCancel (nil check included)
Cancelled(strs, id) ==
  IF id = 0 THEN strs ELSE [strs EXCEPT ![id].cancelled = TRUE]

\* go p.printBuffer(k)
Spawned(strs, k) ==
  Append(strs, [pc |-> "pb", i |-> k, cancelled |-> FALSE])

NoOp(st) ==
  [state |-> st, cancel |-> FALSE, spawn |-> -1, go |-> "none", stop |-> "none"]

\* the switch of transition: the new state, whether printCancel is called,
\* the index a printBuffer is started at (-1: none), the task spawned, and
\* the blocking statement the case runs into
Switch(st, e) ==
  CASE st = "Idle" /\ e.kind = "Start" ->
         [NoOp("Initializing") EXCEPT !.go = "init"]
    [] st = "Initializing" /\ e.kind = "InitComplete" ->
         [NoOp("Ready") EXCEPT !.go = "begin"]
    [] st = "Printing" /\ e.kind = "Hold" ->
         [NoOp("Paused") EXCEPT !.cancel = TRUE]
    [] st = "Printing" /\ e.kind = "Retransmit" ->
         [NoOp("Printing") EXCEPT !.cancel = TRUE,
                                  !.spawn = extractRetryPacketIndex(e.data)]
    [] st = "Printing" /\ e.kind = "Error" ->
         [NoOp("Failed") EXCEPT !.cancel = TRUE, !.stop = "done124"]
    [] st = "Printing" /\ e.kind = "Finished" ->
         NoOp("WaitingRetry")
    [] st = "WaitingRetry" /\ e.kind = "Finished" ->
         [NoOp("Completed") EXCEPT !.stop = "end"]
    [] st = "WaitingRetry" /\ e.kind = "Retransmit" ->
         [NoOp("Printing") EXCEPT !.spawn = extractRetryPacketIndex(e.data)]
    [] st = "Paused" /\ e.kind = "Retransmit" ->
         [NoOp("Printing") EXCEPT !.spawn = extractRetryPacketIndex(e.data)]
    [] OTHER -> NoOp(st)

\* a global rule for Cancel only
GlobalRuleCancelOnly(st, e) == st # "Completed" /\ e.kind = "Cancel"

\* the global rule at the end of transition
GlobalRule(st, e) == st # "Completed" /\ e.kind \in {"Cancel", "Error"}

\* runFSM after a transition: return (after ctx.Done) or select again
NextIter(ret) ==
  IF ret THEN [IdleLoop EXCEPT !.pc = "exit"]
  ELSE [IdleLoop EXCEPT !.pc = "select", !.ch = job]

DoneSent(h) == [h EXCEPT !.doneSends[job] = @ + 1]

\* transition(e) run by dispatch loop l once it holds stateMu, up to its
\* first blocking statement; ech is the event channel after the receive
transition(l, e, ret, ech) ==
  LET r == Switch(state, e)
      glob == r.stop = "none" /\ GlobalRule(r.state, e)
      endBusy == r.stop = "end" /\ responseCh # "nil"
      endGo == r.stop = "end" /\ responseCh = "nil"
      s1 == IF r.cancel THEN Cancelled(streamers, printCancel) ELSE streamers
      s2 == IF r.spawn # -1 THEN Spawned(s1, r.spawn) ELSE s1
      h1 == IF e.kind = "Cancel" /\ hist.cancelAt = -1
            THEN [hist EXCEPT !.cancelAt = Len(wire)]
            ELSE IF state = "Printing" /\ e.kind = "Retransmit"
                    /\ hist.retrK = -1
            THEN [hist EXCEPT !.retrK = r.spawn,
                              !.retrAt = Len(PacketsOf(wire))]
            ELSE hist
      h2 == IF e.kind = "Error" /\ h1.paperOut = "queued"
            THEN [h1 EXCEPT !.paperOut =
                    IF state \in {"Completed", "Failed"}
                    THEN "late" ELSE "processed"]
            ELSE h1
      h3 == IF e.kind \in {"Hold", "Retransmit"}
            THEN [h2 EXCEPT !.fsm = Append(@, e)] ELSE h2
  IN
  /\ endBusy => Len(ech[job]) < eventChCap
  /\ state' = IF glob THEN "Failed" ELSE r.state
  /\ streamers' = IF glob THEN Cancelled(s2, printCancel) ELSE s2
  /\ stateMu' = IF r.stop = "done124" \/ glob \/ endGo THEN l ELSE 0
  /\ loop' = [loop EXCEPT ![l] =
       IF r.stop = "done124"
       THEN [pc |-> "done124", ch |-> 0, evt |-> e, ret |-> ret, dch |-> job]
       ELSE IF glob
       THEN [pc |-> "done190", ch |-> 0, evt |-> e, ret |-> ret, dch |-> job]
       ELSE IF endGo
       THEN [pc |-> "end", ch |-> 0, evt |-> e, ret |-> ret, dch |-> 0]
       ELSE NextIter(ret)]
  /\ eventCh' = IF endBusy
                THEN [ech EXCEPT ![job] = Append(@, Evt("Error", <<>>))]
                ELSE ech
  /\ responseCh' = IF endGo THEN "end" ELSE responseCh
  /\ waitingPrefix' = IF endGo THEN SubSeq(finalCmd, 1, 2) ELSE waitingPrefix
  /\ chanBuf' = IF endGo THEN [chanBuf EXCEPT !["end"] = <<>>] ELSE chanBuf
  /\ saw' = IF endGo
            THEN [saw EXCEPT !["end"] =
                    [pc |-> "write", cmd |-> finalCmd, sel |-> "nil"]]
            ELSE IF r.go = "init"
            THEN [saw EXCEPT !["init"] =
                    [pc |-> "call", cmd |-> initSeq[1], sel |-> "nil"]]
            ELSE saw
  /\ initStep' = IF r.go = "init" THEN 1 ELSE initStep
  /\ beginPc' = IF r.go = "begin" THEN "lock" ELSE beginPc
  /\ hist' = IF r.stop = "done124" \/ glob THEN DoneSent(h3) ELSE h3
  /\ UNCHANGED <<ippVars, image, packets, call, out,
                 job, callerPc, result, ctxDone, printCancel, notifyCh,
                 workerPc, wire, acked, nNotif, nFail>>

(* ------------------------------- runFSM ------------------------------- *)
\* select case evt := <-p.eventCh, then transition (or wait for stateMu)
runFSMEvent(l) ==
  /\ loop[l].pc = "select"
  /\ eventCh[loop[l].ch] # <<>>
  /\ LET e == Head(eventCh[loop[l].ch])
         ech == [eventCh EXCEPT ![loop[l].ch] = Tail(@)]
     IN IF stateMu = 0
        THEN transition(l, e, FALSE, ech)
        ELSE /\ loop' = [loop EXCEPT ![l].pc = "lock", ![l].evt = e]
             /\ eventCh' = ech
             /\ UNCHANGED <<ippVars, image, packets, call, out,
                            state, stateMu, job, callerPc, result,
                            ctxDone, printCancel, streamers, waitingPrefix,
                            responseCh, chanBuf, saw, initStep, beginPc,
                            notifyCh, workerPc, wire, acked, nNotif, nFail,
                            hist>>

\* select case <-ctx.Done(): transition(eventCancel), then return
runFSMCtxDone(l) ==
  /\ loop[l].pc = "select"
  /\ ctxDone[l]
  /\ IF stateMu = 0
     THEN transition(l, Evt("Cancel", <<>>), TRUE, eventCh)
     ELSE /\ loop' = [loop EXCEPT ![l].pc = "lock",
                                  ![l].evt = Evt("Cancel", <<>>),
                                  ![l].ret = TRUE]
          /\ UNCHANGED <<ippVars, image, packets, call, out,
                         state, stateMu, job, callerPc, result, ctxDone,
                         eventCh, printCancel, streamers, waitingPrefix,
                         responseCh, chanBuf, saw, initStep, beginPc,
                         notifyCh, workerPc, wire, acked, nNotif, nFail, hist>>

\* p.stateMu.Lock() of a transition that had to wait for the mutex
runFSMLocked(l) ==
  /\ loop[l].pc = "lock"
  /\ stateMu = 0
  /\ transition(l, loop[l].evt, loop[l].ret, eventCh)

\* p.doneCh <- struct{}{} meets the caller's <-p.doneCh; the caller returns
\* nil; transition goes on to the global rule (after line 124) or returns
doneChSend(l) ==
  /\ loop[l].pc \in {"done124", "done149", "done190"}
  /\ callerPc = "wait"
  /\ loop[l].dch = job
  /\ result' = [result EXCEPT ![job] = "nil"]
  /\ callerPc' = "idle"
  /\ IF loop[l].pc = "done124" /\ GlobalRule(state, loop[l].evt)
     THEN /\ streamers' = Cancelled(streamers, printCancel)
          /\ state' = "Failed"
          /\ loop' = [loop EXCEPT ![l].pc = "done190", ![l].dch = job]
          /\ hist' = DoneSent(hist)
          /\ UNCHANGED stateMu
     ELSE /\ stateMu' = 0
          /\ loop' = [loop EXCEPT ![l] = NextIter(loop[l].ret)]
          /\ UNCHANGED <<streamers, state, hist>>
  /\ UNCHANGED <<ippVars, image, packets, call, out,
                 job, ctxDone, eventCh, printCancel, waitingPrefix,
                 responseCh, chanBuf, saw, initStep, beginPc, notifyCh,
                 workerPc, wire, acked, nNotif, nFail>>

(* ---------------------------- sendAndWait ----------------------------- *)
ErrorEvt == Evt("Error", <<>>)
\* a send that puts the event at the front of the queue
SentFirst(ech, e) == [ech EXCEPT ![job] = <<e>> \o @]
Sent(ech, e) == [ech EXCEPT ![job] = Append(@, e)]

\* what the caller of sendAndWait does with the result: sendInitSequence
\* goes to its next command or emits InitComplete / Error; the begin task
\* calls printBuffer(0) or emits Error; transition (end command) sends done
\* or emits Error and returns
sawReturn(w, ok) ==
  /\ LET sid == Len(streamers) + 1
         startOk == NPackets # 0 /\ 0 < NPackets
         l == CHOOSE j \in Jobs : loop[j].pc = "end"
         e == CASE w = "init" /\ ok /\ initStep = Len(initSeq) ->
                     Evt("InitComplete", <<>>)
                [] w = "init" /\ ok -> NoEvt
                [] w = "begin" /\ ok /\ startOk -> NoEvt
                [] w = "end" /\ ok -> NoEvt
                [] OTHER -> ErrorEvt
     IN
     /\ e # NoEvt => Len(eventCh[job]) < eventChCap
     /\ eventCh' = IF e # NoEvt THEN Sent(eventCh, e) ELSE eventCh
     /\ saw' = IF w = "init" /\ ok /\ initStep < Len(initSeq)
               THEN [saw EXCEPT ![w] = [pc |-> "call",
                                        cmd |-> initSeq[initStep + 1],
                                        sel |-> "nil"]]
               ELSE [saw EXCEPT ![w] = IdleSaw]
     /\ initStep' = IF w = "init" /\ ok /\ initStep < Len(initSeq)
                    THEN initStep + 1 ELSE initStep
     /\ beginPc' = IF w = "begin" THEN "done" ELSE beginPc
     /\ streamers' = IF w = "begin" /\ ok /\ startOk
                     THEN Append(streamers,
                                 [pc |-> "run", i |-> 0, cancelled |-> FALSE])
                     ELSE streamers
     /\ printCancel' = IF w = "begin" /\ ok /\ startOk THEN sid
                       ELSE printCancel
     /\ loop' = IF w # "end" THEN loop
                ELSE IF ok
                THEN [loop EXCEPT ![l].pc = "done149", ![l].dch = job]
                ELSE [loop EXCEPT ![l] = NextIter(loop[l].ret)]
     /\ stateMu' = IF w = "end" /\ ~ok THEN 0 ELSE stateMu
     /\ hist' = IF w = "end" /\ ok THEN DoneSent(hist)
                ELSE IF w = "init" /\ ~ok
                THEN [hist EXCEPT !.initFailed = TRUE]
                ELSE IF w = "end" /\ ~ok
                THEN [hist EXCEPT !.endFailed = TRUE]
                ELSE hist

sawStay(w, new) ==
  /\ saw' = [saw EXCEPT ![w] = new]
  /\ UNCHANGED <<eventCh, initStep, beginPc, streamers, printCancel, loop,
                 stateMu, hist>>

\* a reservation that does not look at the slot first
sawReserveUnchecked(w) ==
  /\ saw[w].pc = "call"
  /\ responseCh' = w
  /\ waitingPrefix' = SubSeq(saw[w].cmd, 1, 2)
  /\ chanBuf' = [chanBuf EXCEPT ![w] = <<>>]
  /\ sawStay(w, [saw[w] EXCEPT !.pc = "write"])
  /\ UNCHANGED <<ippVars, image, packets, call, out,
                 state, job, callerPc, result, ctxDone, notifyCh, workerPc,
                 wire, acked, nNotif, nFail>>

\* lines 506-513: reserve the slot, or fail when one is reserved
sawReserve(w) ==
  /\ saw[w].pc = "call"
  /\ IF responseCh # "nil"
     THEN /\ sawReturn(w, FALSE)
          /\ UNCHANGED <<responseCh, waitingPrefix, chanBuf>>
     ELSE /\ responseCh' = w
          /\ waitingPrefix' = SubSeq(saw[w].cmd, 1, 2)
          /\ chanBuf' = [chanBuf EXCEPT ![w] = <<>>]
          /\ sawStay(w, [saw[w] EXCEPT !.pc = "write"])
  /\ UNCHANGED <<ippVars, image, packets, call, out,
                 state, job, callerPc, result, ctxDone, notifyCh, workerPc,
                 wire, acked, nNotif, nFail>>

\* lines 517-523: one write; on failure clear the slot and return the error
sawWrite(w) ==
  /\ saw[w].pc = "write"
  /\ \E ok \in BOOLEAN :
       IF ok
       THEN /\ wire' = Append(wire, saw[w].cmd)
            /\ sawStay(w, [saw[w] EXCEPT !.pc = "sel"])
            /\ UNCHANGED <<responseCh, waitingPrefix, nFail>>
       ELSE /\ Disturb < MaxDisturb
            /\ nFail' = nFail + 1
            /\ responseCh' = "nil"
            /\ waitingPrefix' = <<>>
            /\ sawReturn(w, FALSE)
            /\ UNCHANGED wire
  /\ UNCHANGED <<ippVars, image, packets, call, out,
                 state, job, callerPc, result, ctxDone, chanBuf, notifyCh,
                 workerPc, acked, nNotif>>

\* line 526: the select evaluates p.responseCh (without the mutex)
sawSelect(w) ==
  /\ saw[w].pc = "sel"
  /\ sawStay(w, [saw[w] EXCEPT !.pc = "wait", !.sel = responseCh])
  /\ UNCHANGED <<ippVars, image, packets, call, out,
                 state, job, callerPc, result, ctxDone, waitingPrefix,
                 responseCh, chanBuf, notifyCh, workerPc, wire, acked, nNotif,
                 nFail>>

\* lines 526-527: the response arrives on the channel selected on
sawResponse(w) ==
  /\ saw[w].pc = "wait"
  /\ saw[w].sel # "nil"
  /\ chanBuf[saw[w].sel] # <<>>
  /\ acked' = Append(acked, Head(chanBuf[saw[w].sel]))
  /\ chanBuf' = [chanBuf EXCEPT ![saw[w].sel] = <<>>]
  /\ sawReturn(w, TRUE)
  /\ UNCHANGED <<ippVars, image, packets, call, out,
                 state, job, callerPc, result, ctxDone, waitingPrefix,
                 responseCh, notifyCh, workerPc, wire, nNotif, nFail>>

\* a timeout that returns the error and leaves the slot reserved
sawTimeoutKeepsSlot(w) ==
  /\ saw[w].pc = "wait"
  /\ sawReturn(w, FALSE)
  /\ UNCHANGED <<ippVars, image, packets, call, out,
                 state, job, callerPc, result, ctxDone, chanBuf, notifyCh,
                 workerPc, wire, acked, nNotif, nFail, responseCh,
                 waitingPrefix>>

\* lines 528-533: the timeout fires; clear the slot, return the error
sawTimeout(w) ==
  /\ saw[w].pc = "wait"
  /\ responseCh' = "nil"
  /\ waitingPrefix' = <<>>
  /\ sawReturn(w, FALSE)
  /\ UNCHANGED <<ippVars, image, packets, call, out,
                 state, job, callerPc, result, ctxDone, chanBuf, notifyCh,
                 workerPc, wire, acked, nNotif, nFail>>

(* --------------------------- the begin task --------------------------- *)
\* fsm.go lines 73-89: lock, state = Printing, unlock; then the begin command
beginTask ==
  /\ beginPc = "lock"
  /\ stateMu = 0
  /\ state' = "Printing"
  /\ IF NPackets = 0
     THEN /\ Len(eventCh[job]) < eventChCap
          /\ eventCh' = Sent(eventCh, ErrorEvt)
          /\ beginPc' = "done"
          /\ UNCHANGED saw
     ELSE /\ saw' = [saw EXCEPT !["begin"] =
                       [pc |-> "call", cmd |-> beginCmd, sel |-> "nil"]]
          /\ beginPc' = "cmd"
          /\ UNCHANGED eventCh
  /\ UNCHANGED <<ippVars, image, packets, call, out,
                 stateMu, job, callerPc, result, ctxDone, loop, printCancel,
                 streamers, waitingPrefix, responseCh, chanBuf, initStep,
                 notifyCh, workerPc, wire, acked, nNotif, nFail, hist>>

(* ----------------------------- printBuffer ---------------------------- *)
\* a send that makes one attempt only
sendOnce(attempts) == attempts[1]

\* send: up to maxRetries attempts, nil at the first that succeeds
send(attempts) == \E i \in 1..maxRetries : attempts[i]

\* the calls of WriteWithoutResponse that send makes from attempt i on: the
\* loop returns at the first attempt that succeeds
RECURSIVE sendWrites(_, _)
sendWrites(attempts, i) ==
  IF i > maxRetries THEN 0
  ELSE IF attempts[i] THEN 1
  ELSE 1 + sendWrites(attempts, i + 1)

\* go p.printBuffer(k), lines 432-440: the range check, then the new cancel
\* function is stored and the streamer goroutine started
printBuffer(s) ==
  /\ streamers[s].pc = "pb"
  /\ IF NPackets = 0 \/ streamers[s].i >= NPackets
     THEN /\ Len(eventCh[job]) < eventChCap
          /\ eventCh' = Sent(eventCh, ErrorEvt)
          /\ streamers' = [streamers EXCEPT ![s].pc = "exit"]
          /\ UNCHANGED printCancel
     ELSE /\ printCancel' = s
          /\ streamers' = [streamers EXCEPT ![s].pc = "run"]
          /\ UNCHANGED eventCh
  /\ UNCHANGED <<ippVars, image, packets, call, out,
                 state, stateMu, job, callerPc, result, ctxDone, loop,
                 waitingPrefix, responseCh, chanBuf, saw, initStep, beginPc,
                 notifyCh, workerPc, wire, acked, nNotif, nFail, hist>>

\* lines 446-459, case <-t.C: send packet i.  The select takes this case
\* whenever the ticker is ready, whether or not ctx is done as well.
streamerTick(s) ==
  /\ streamers[s].pc = "run"
  /\ streamers[s].i < NPackets
  /\ \E ok \in {send(attempts) : attempts \in [1..maxRetries -> BOOLEAN]} :
       IF ok
       THEN /\ wire' = Append(wire, buffer[streamers[s].i])
            /\ streamers' = [streamers EXCEPT ![s].i = @ + 1]
            /\ UNCHANGED <<eventCh, nFail>>
       ELSE /\ Disturb < MaxDisturb
            /\ nFail' = nFail + 1
            /\ Len(eventCh[job]) < eventChCap
            /\ eventCh' = Sent(eventCh, ErrorEvt)
            /\ streamers' = [streamers EXCEPT ![s].pc = "exit",
                                              ![s].cancelled = TRUE]
            /\ UNCHANGED wire
  /\ UNCHANGED <<ippVars, image, packets, call, out,
                 state, stateMu, job, callerPc, result, ctxDone, loop,
                 printCancel, waitingPrefix, responseCh, chanBuf, saw,
                 initStep, beginPc, notifyCh, workerPc, acked, nNotif, hist>>

\* lines 448-450, case <-ctx.Done(): return
streamerCtxDone(s) ==
  /\ streamers[s].pc = "run"
  /\ streamers[s].i < NPackets
  /\ streamers[s].cancelled
  /\ streamers' = [streamers EXCEPT ![s].pc = "exit"]
  /\ UNCHANGED <<ippVars, image, packets, call, out,
                 state, stateMu, job, callerPc, result, ctxDone, eventCh, loop,
                 printCancel, waitingPrefix, responseCh, chanBuf, saw,
                 initStep, beginPc, notifyCh, workerPc, wire, acked, nNotif,
                 nFail, hist>>

\* lines 461-462: the loop is over, emit Finished (and the deferred cancel)
streamerFinished(s) ==
  /\ streamers[s].pc = "run"
  /\ streamers[s].i >= NPackets
  /\ Len(eventCh[job]) < eventChCap
  /\ eventCh' = Sent(eventCh, Evt("Finished", <<>>))
  /\ streamers' = [streamers EXCEPT ![s].pc = "exit", ![s].cancelled = TRUE]
  /\ UNCHANGED <<ippVars, image, packets, call, out,
                 state, stateMu, job, callerPc, result, ctxDone, loop,
                 printCancel, waitingPrefix, responseCh, chanBuf, saw,
                 initStep, beginPc, notifyCh, workerPc, wire, acked, nNotif,
                 nFail, hist>>

(* ------------------------ inbound notifications ----------------------- *)
\* notificationCallback: hand the frame to the waiter, or classify it
notificationCallback(value) ==
  /\ Len(value) >= 2
  /\ hist' = IF notification(value) = ntFinished
             THEN [hist EXCEPT !.rxFinished = TRUE]
             ELSE IF notification(value) = ntHold
             THEN [hist EXCEPT !.rx = Append(@, Evt("Hold", <<>>))]
             ELSE IF notification(value) = ntRetransmit
             THEN [hist EXCEPT !.rx = Append(@, Evt("Retransmit", value))]
             ELSE hist
  /\ IF waitingPrefix # <<>> /\ HasPrefix(value, waitingPrefix)
        /\ responseCh # "nil"
     THEN /\ chanBuf' = IF chanBuf[responseCh] = <<>>
                        THEN [chanBuf EXCEPT ![responseCh] = <<value>>]
                        ELSE chanBuf
          /\ waitingPrefix' = <<>>
          /\ responseCh' = "nil"
          /\ UNCHANGED <<notifyCh, nNotif>>
     ELSE /\ IF notification(value) \in
                  {ntStatus, ntFinished, ntRetransmit, ntHold}
             THEN /\ Len(notifyCh) < notifyChCap
                  /\ nNotif' = nNotif + 1
                  /\ notifyCh' = Append(notifyCh,
                        [prefix |-> notification(value), data |-> value])
             ELSE UNCHANGED <<notifyCh, nNotif>>
          /\ UNCHANGED <<chanBuf, waitingPrefix, responseCh>>
  /\ UNCHANGED <<ippVars, image, packets, call, out,
                 state, stateMu, job, callerPc, result, ctxDone, eventCh, loop,
                 printCancel, streamers, saw, initStep, beginPc, workerPc,
                 wire, acked, nFail>>

\* the event the worker forwards for a notification ("none": nothing)
workerEvent(ntf) ==
  CASE ntf.prefix = ntStatus ->
         IF ~parseStatus(ntf.data).err /\ parseStatus(ntf.data).NoPaper
         THEN ErrorEvt ELSE NoEvt
    [] ntf.prefix = ntHold -> Evt("Hold", <<>>)
    [] ntf.prefix = ntRetransmit -> Evt("Retransmit", ntf.data)
    [] ntf.prefix = ntFinished -> Evt("Finished", <<>>)
    [] OTHER -> NoEvt

\* worker: take one notification and forward its event to p.eventCh; a send
\* on the nil channel (no print call made yet) blocks for ever
worker ==
  /\ workerPc = "run"
  /\ notifyCh # <<>>
  /\ notifyCh' = Tail(notifyCh)
  /\ LET e == workerEvent(Head(notifyCh))
     IN IF e = NoEvt
        THEN UNCHANGED <<eventCh, workerPc, hist>>
        ELSE IF job = 0
        THEN workerPc' = "stuck" /\ UNCHANGED <<eventCh, hist>>
        ELSE /\ Len(eventCh[job]) < eventChCap
             /\ eventCh' = Sent(eventCh, e)
             /\ hist' = IF e = ErrorEvt /\ hist.paperOut = "no"
                        THEN [hist EXCEPT !.paperOut = "queued"] ELSE hist
             /\ UNCHANGED workerPc
  /\ UNCHANGED <<ippVars, image, packets, call, out,
                 state, stateMu, job, callerPc, result, ctxDone, loop,
                 printCancel, streamers, waitingPrefix, responseCh, chanBuf,
                 saw, initStep, beginPc, wire, acked, nNotif, nFail>>

(* --------------------------- specifications --------------------------- *)
\* the goroutines of a print session
Session ==
  \/ \E l \in Jobs : runFSMEvent(l)
  \/ \E l \in Jobs : doneChSend(l)
  \/ \E w \in Waiters : sawReserve(w)
  \/ \E w \in Waiters : sawWrite(w)
  \/ \E w \in Waiters : sawSelect(w)
  \/ \E w \in Waiters : sawResponse(w)
  \/ \E w \in Waiters : sawTimeout(w)
  \/ beginTask
  \/ \E s \in 1..Len(streamers) : printBuffer(s)
  \/ \E s \in 1..Len(streamers) : streamerTick(s)
  \/ \E s \in 1..Len(streamers) : streamerCtxDone(s)
  \/ \E s \in 1..Len(streamers) : streamerFinished(s)
  \/ worker

\* the caller cancels: what printPackets and runFSM do about it
CancelPath ==
  \/ \E j \in Jobs : ctxCancel(j)
  \/ printPacketsCtxDone
  \/ \E l \in Jobs : runFSMCtxDone(l)

\* the device sends any frame at any time; the frames that reach the worker
\* count as acts of the environment
Tasks ==
  \/ CancelPath
  \/ Session
  \/ \E value \in DeviceFrames :
       notificationCallback(value) /\ Disturb' <= MaxDisturb

\* one print call on a fresh driver
Next == printPackets(1) \/ Tasks
Spec == Init /\ [][Next]_vars

\* the scheduler runs every goroutine that can take a step: the dispatch
\* loops, the tasks in sendAndWait up to their select and when the response
\* is in the channel, the begin task, the streamers, the worker and the
\* caller's select.  The 3-s timers and the device are not part of it.
FairTasks ==
  /\ WF_vars(\E l \in Jobs : runFSMEvent(l))
  /\ WF_vars(\E l \in Jobs : runFSMCtxDone(l))
  /\ WF_vars(\E l \in Jobs : runFSMLocked(l))
  /\ WF_vars(\E l \in Jobs : doneChSend(l))
  /\ WF_vars(\E w \in Waiters : sawReserve(w))
  /\ WF_vars(\E w \in Waiters : sawWrite(w))
  /\ WF_vars(\E w \in Waiters : sawSelect(w))
  /\ WF_vars(\E w \in Waiters : sawResponse(w))
  /\ WF_vars(beginTask)
  /\ WF_vars(\E s \in 1..Len(streamers) : printBuffer(s))
  /\ WF_vars(\E s \in 1..Len(streamers) : streamerTick(s))
  /\ WF_vars(\E s \in 1..Len(streamers) : streamerCtxDone(s))
  /\ WF_vars(\E s \in 1..Len(streamers) : streamerFinished(s))
  /\ WF_vars(worker)
  /\ WF_vars(printPacketsCtxDone)

\* one print call on a fresh driver under a fair scheduler
SpecFair == Init /\ [][Next]_vars /\ FairTasks

\* one print call that the caller never cancels, with a device that sends
\* any frame, the odd ones included, at any time
NextDevice ==
  \/ printPackets(1)
  \/ Session
  \/ \E value \in DeviceFrames \cup OddFrames :
       notificationCallback(value) /\ nNotif' <= MaxNotif
SpecDevice == Init /\ [][NextDevice]_vars

\* PrintImage, line 357: the image is serialised into packets
PrintImageSerialise ==
  /\ packets = {}
  /\ packets' = {Serialise(image)}
  /\ UNCHANGED <<ippVars, image, call, out, sessionVars>>

\* Serialise applied to each of the images
InitRaster ==
  /\ InitSession
  /\ createJob
  /\ image \in Images
  /\ packets = {}
  /\ call = NoCall
  /\ out = {}
SpecRaster == InitRaster /\ [][PrintImageSerialise]_vars

\* the black and white images given to the driver; the wide ones, which
\* ResizeToFit scales down, have all pixels equal
BWImages ==
  { i \in Images : /\ i.pat \in {"light", "dark", "checker"}
                   /\ (i.w <= LineWidth \/ i.pat # "checker") }

\* images 384 wide whose packet count is the largest that fits 16 bits,
\* one more, and two more
TallImages ==
  [w : {LineWidth}, h : {2 ^ 17 - 3, 2 ^ 17 - 2, 2 ^ 17},
   pat : {"light", "dark"}]

\* the calls made on an image, with their other arguments
Inputs ==
  (BWImages \X [op : {"Rasterise"}, autoDither : BOOLEAN])
    \cup (BWImages \X [op : {"PrintImage"}, autoDither : BOOLEAN,
                       crop : BOOLEAN])
    \cup (TallImages \X [op : {"PrintImage"}, autoDither : {FALSE},
                         crop : {FALSE}])

\* r.Serialise(r.ResizeAndDither(src, gamma, autoDither)), as PrintImage
\* (lines 350-357) and TestRaster_Rasterise make it
Rasterise ==
  /\ call.op = "Rasterise"
  /\ out = {}
  /\ out' = {Serialise(ResizeAndDither(image, call.autoDither))}
  /\ UNCHANGED <<ippVars, image, packets, call, sessionVars>>

\* the packets of a result whose prefixes are kept: the first three and
\* those from index 65535 on
Sampled(count) ==
  { n \in 1..count : n <= 3 } \cup { n \in 65536..count : TRUE }

\* WithCrop(crop) applied to the options o
WithCrop(crop, o) == [o EXCEPT !.crop = crop]

\* LXD02.PrintImage without dry run on a driver made with WithCrop: the
\* error of Serialise is returned, otherwise printPackets loads the packets
\* and starts the FSM; buflen is len(p.buffer), width and height the bounds
\* of the bitmap that is serialised, prefix the first three bytes of the
\* sampled packets.  The options are not read between the constructor and
\* the rasteriser.
PrintImage ==
  /\ call.op = "PrintImage"
  /\ out = {}
  /\ LET options == WithCrop(call.crop, [crop |-> FALSE])
         bmp == ResizeAndDither(image, call.autoDither)
         err == exceedsLineWidth(bmp)
         buflen == IF err THEN 0 ELSE numPackets(bmp)
     IN out' = {[err |-> err,
                 started |-> ~err,
                 buflen |-> buflen,
                 width |-> bmp.w,
                 height |-> bmp.h,
                 prefix |-> [n \in Sampled(buflen) |->
                               SubSeq(Serialise(bmp).packets[n], 1, 3)]]}
  /\ UNCHANGED <<ippVars, image, packets, call, sessionVars>>

\* raw blocks: of 96 bytes (blank, full, a ramp) and of other lengths
Blocks ==
  { [b \in 1..96 |-> 0], [b \in 1..96 |-> 255], [b \in 1..96 |-> b],
    [b \in 1..95 |-> 0], [b \in 1..97 |-> 0], <<>> }

\* the raw data given to Enumerate and PrintRAW: up to MaxBlocks blocks
RawData ==
  UNION { [1..n -> Blocks] : n \in 0..MaxBlocks }
RawCalls == [op : {"Enumerate", "PrintRAW"}, data : RawData]

\* an Enumerate that skips the blocks of a wrong length
EnumerateSkipping(data) ==
  LET good == SelectSeq(data, LAMBDA line : Len(line) = 96)
  IN [err |-> FALSE,
      packets |-> [i \in 1..Len(good) |->
                     PrefixFunc(i - 1) \o good[i] \o <<Terminator>>]]

\* GenericRasteriser.Enumerate with the fields of LXD02Rasteriser
Enumerate(data) ==
  LET lineWidthBytes == LineWidth \div 8
      msgDataSz == lineWidthBytes * LinesPerPacket
  IN IF \E i \in 1..Len(data) : Len(data[i]) # msgDataSz
     THEN [err |-> TRUE, packets |-> <<>>]
     ELSE [err |-> FALSE,
           packets |-> [i \in 1..Len(data) |->
                          PrefixFunc(i - 1) \o data[i] \o <<Terminator>>]]

\* r.Enumerate(data)
EnumerateCall ==
  /\ call.op = "Enumerate"
  /\ out = {}
  /\ out' = {Enumerate(call.data)}
  /\ UNCHANGED <<ippVars, image, packets, call, sessionVars>>

\* LXD02.PrintRAW: empty data and the error of Enumerate are returned,
\* otherwise printPackets loads the packets and starts the FSM
PrintRAW ==
  /\ call.op = "PrintRAW"
  /\ out = {}
  /\ LET s == Enumerate(call.data)
         err == Len(call.data) = 0 \/ s.err
         buflen == IF err THEN 0 ELSE Len(s.packets)
     IN out' = {[err |-> err,
                 started |-> ~err,
                 buflen |-> buflen,
                 prefix |-> [n \in Sampled(buflen) |->
                               SubSeq(s.packets[n], 1, 3)]]}
  /\ UNCHANGED <<ippVars, image, packets, call, sessionVars>>

\* the images and target widths given to ResizeToFit; the images wider
\* than the target, which are scaled down, have all pixels equal
ResizeInputs ==
  { in \in Images \X [op : {"ResizeToFit"}, targetWidth : {1, 9, LineWidth}] :
      in[1].w <= in[2].targetWidth \/ in[1].pat \in {"light", "dark"} }

\* bitmap.ResizeToFit(img, targetWidth)
ResizeToFitCall ==
  /\ call.op = "ResizeToFit"
  /\ out = {}
  /\ out' = {ResizeToFit(image, call.targetWidth)}
  /\ UNCHANGED <<ippVars, image, packets, call, sessionVars>>

\* the images and thresholds (uint8) given to DitherThresholdFn
ThresholdInputs ==
  Images \X [op : {"DitherThresholdFn"}, threshold : {0, 1, 127, 128, 255}]

\* DitherThresholdFn(threshold) applied to the image, and again to the
\* image that returned
DitherThresholdFnCall ==
  /\ call.op = "DitherThresholdFn"
  /\ out = {}
  /\ LET once == DitherThresholdFn(call.threshold, image)
     IN out' = {[once |-> once,
                 twice |-> DitherThresholdFn(call.threshold, once)]}
  /\ UNCHANGED <<ippVars, image, packets, call, sessionVars>>

\* the keys of the map ditherFunctions
ditherFunctions ==
  {"floyd-steinberg", "atkinson", "stucki", "bayer", "no-dither"}

\* the dither names given to WithDither: the registered ones, none, and
\* names that are not registered
DitherNames == ditherFunctions \cup {"", "bogus", "Atkinson"}

\* WithDither(name) applied to the options o
WithDither(name, o) ==
  IF name \notin ditherFunctions THEN o
  ELSE [o EXCEPT !.dithername = name]

\* the constructions of a driver: the dither option, dry run or not, and
\* whether the printer can be connected
Constructions ==
  [op : {"NewLXD02"}, name : DitherNames, dryrun : BOOLEAN,
   connects : BOOLEAN]

\* NewLXD02 with the options WithDither(name) and WithDryRun(dryrun):
\* the error returned and the dither function the rasteriser is left with
NewLXD02 ==
  /\ call.op = "NewLXD02"
  /\ out = {}
  /\ LET opts == WithDither(call.name, [dithername |-> "",
                                         dryrun |-> call.dryrun])
     IN out' =
          IF ~opts.dryrun /\ ~call.connects
          THEN {[err |-> TRUE, DitherFunc |-> "none"]}
          ELSE IF opts.dithername # ""
          THEN IF opts.dithername \notin ditherFunctions
               THEN {[err |-> TRUE, DitherFunc |-> "none"]}
               ELSE {[err |-> FALSE, DitherFunc |-> opts.dithername]}
          ELSE {[err |-> FALSE, DitherFunc |-> "ditherimg"]}
  /\ UNCHANGED <<ippVars, image, packets, call, sessionVars>>

\* NewComposer(width, opt...): a canvas one line high, the position at its
\* top; the options are not applied
NewComposer(width, opt) ==
  [dst |-> [w |-> width, h |-> 1], sp |-> 0, crop |-> FALSE]

\* Composer.AppendImageDither(img, nil): the image as it is drawn (resized
\* when wider than the canvas and crop is off, then thresholded), the canvas
\* grown to hold it, the position moved below it; draw.Draw clips the image
\* to the canvas
AppendImageDither(c, img) ==
  LET fit == IF c.dst.w < img.w /\ ~c.crop
             THEN ResizeToFit(img, c.dst.w) ELSE img
      dsth == IF c.sp + fit.h > c.dst.h THEN c.sp + fit.h ELSE c.dst.h
  IN [dst |-> [w |-> c.dst.w, h |-> dsth],
      sp |-> c.sp + fit.h,
      crop |-> c.crop,
      drawn |-> DitherThresholdFn(DefaultThreshold, fit)]

\* the images appended to a fresh composer of the print width, made with
\* WithComposerCrop(crop)
ComposerInputs ==
  BWImages \X [op : {"AppendImageDither"}, crop : BOOLEAN]

\* NewComposer(LineWidth, WithComposerCrop(crop)).AppendImageDither(img, nil)
AppendImageDitherCall ==
  /\ call.op = "AppendImageDither"
  /\ out = {}
  /\ out' = {AppendImageDither(NewComposer(LineWidth, call.crop), image)}
  /\ UNCHANGED <<ippVars, image, packets, call, sessionVars>>

\* what the write attempts of each packet come to, for a streamer call
Attempts == [1..maxRetries -> BOOLEAN]
StreamInputs ==
  [op : {"printBuffer"}, start : 0..NPackets,
   attempts : [0..(NPackets - 1) -> Attempts]]

\* the streamer goroutine of printBuffer (lines 446-462) when its context
\* is not cancelled: from packet i on, one send per tick; written are the
\* indices sent, tries the writes each send made
RECURSIVE streamLoop(_, _, _, _)
streamLoop(i, attempts, written, tries) ==
  IF i >= NPackets
  THEN [written |-> written, tries |-> tries, event |-> "Finished"]
  ELSE IF send(attempts[i])
  THEN streamLoop(i + 1, attempts, Append(written, i),
                  Append(tries, sendWrites(attempts[i], 1)))
  ELSE [written |-> written,
        tries |-> Append(tries, sendWrites(attempts[i], 1)),
        event |-> "Error"]

\* p.printBuffer(start) run to its end: the range check, then the streamer
printBufferRun ==
  /\ call.op = "printBuffer"
  /\ out = {}
  /\ out' = IF NPackets = 0 \/ call.start >= NPackets
            THEN {[written |-> <<>>, tries |-> <<>>, event |-> "Error"]}
            ELSE {streamLoop(call.start, call.attempts, <<>>, <<>>)}
  /\ UNCHANGED <<ippVars, image, packets, call, sessionVars>>

\* one library or driver call on each of the inputs
InitCalls ==
  /\ InitSession
  /\ createJob
  /\ packets = {}
  /\ out = {}
  /\ \/ \E in \in Inputs : image = in[1] /\ call = in[2]
     \/ \E in \in ResizeInputs : image = in[1] /\ call = in[2]
     \/ \E in \in ThresholdInputs : image = in[1] /\ call = in[2]
     \/ image = "none" /\ call \in Constructions
     \/ image = "none" /\ call \in RawCalls
     \/ \E in \in ComposerInputs : image = in[1] /\ call = in[2]
     \/ image = "none" /\ call \in StreamInputs
NextCalls ==
  \/ Rasterise \/ PrintImage \/ NewLXD02 \/ EnumerateCall \/ PrintRAW
  \/ ResizeToFitCall \/ DitherThresholdFnCall \/ AppendImageDitherCall
  \/ printBufferRun
SpecCalls == InitCalls /\ [][NextCalls]_vars

\* up to MaxJobs print calls, one after the other, on the same driver
NextJobs ==
  \/ printPackets(MaxJobs)
  \/ \E l \in Jobs : runFSMLocked(l)
  \/ Tasks
SpecJobs == Init /\ [][NextJobs]_vars

\* one print call with a cooperating device that follows the script Hold,
\* Retransmit(k), Finished: it acknowledges the commands, sends Hold once
\* streaming has begun, then, once the job is paused, Retransmit(k) for the
\* k packets it has received so far, and Finished once the driver waits for it
AckFrames ==
  {SubSeq(initSeq[n], 1, 2) : n \in 1..Len(initSeq)}
    \cup {SubSeq(beginCmd, 1, 2)}
Received == Len(PacketsOf(wire))
DeviceAck == \E value \in AckFrames : notificationCallback(value)
DeviceHold ==
  /\ nNotif = 0
  /\ \E s \in 1..Len(streamers) : streamers[s].pc = "run"
  /\ Received < NPackets
  /\ notificationCallback(<<90, 8>>)
DeviceRetransmit ==
  /\ nNotif = 1
  /\ state = "Paused"
  /\ Received < NPackets
  /\ notificationCallback(RetransmitFrame(Received))
DeviceFinished ==
  /\ nNotif = 2
  /\ state = "WaitingRetry"
  /\ notificationCallback(<<90, 6>>)
NextHoldResume ==
  \/ printPackets(1)
  \/ Session
  \/ DeviceAck
  \/ DeviceHold
  \/ DeviceRetransmit
  \/ DeviceFinished
SpecHoldResume == Init /\ [][NextHoldResume]_vars

\* one print call that is never cancelled, on a link whose writes succeed,
\* with a device that answers each synchronous command, once it is written
\* and while its response is awaited, with the first two bytes of the
\* command, asks at most once for a retransmission from a packet it was
\* sent, and sends Finished once after the last packet was written
DeviceAnswer ==
  \E w \in Waiters :
    /\ responseCh = w
    /\ saw[w].pc \in {"sel", "wait"}
    /\ notificationCallback(SubSeq(saw[w].cmd, 1, 2))
LastPacketWritten ==
  NPackets > 0 /\ \E n \in 1..Len(wire) : wire[n] = buffer[NPackets - 1]
DeviceRetransmitInRange ==
  /\ nNotif = 0
  /\ ~hist.rxFinished
  /\ Received > 0
  /\ \E k \in 0..(Received - 1) :
       k < NPackets /\ notificationCallback(RetransmitFrame(k))
DeviceFinishedAfterLast ==
  /\ ~hist.rxFinished
  /\ LastPacketWritten
  /\ notificationCallback(<<90, 6>>)

\* the 3-s timer of a sendAndWait whose response is not in the channel it
\* selected on and can no longer be put there
sawTimeoutLate(w) ==
  /\ saw[w].pc = "wait"
  /\ IF saw[w].sel = "nil" THEN TRUE
     ELSE chanBuf[saw[w].sel] = <<>> /\ responseCh # saw[w].sel
  /\ sawTimeout(w)

NextLive ==
  \/ printPackets(1)
  \/ \E l \in Jobs : runFSMEvent(l)
  \/ \E l \in Jobs : doneChSend(l)
  \/ \E w \in Waiters : sawReserve(w)
  \/ \E w \in Waiters : sawWrite(w) /\ nFail' = nFail
  \/ \E w \in Waiters : sawSelect(w)
  \/ \E w \in Waiters : sawResponse(w)
  \/ \E w \in Waiters : sawTimeoutLate(w)
  \/ beginTask
  \/ \E s \in 1..Len(streamers) : printBuffer(s)
  \/ \E s \in 1..Len(streamers) : streamerTick(s) /\ nFail' = nFail
  \/ \E s \in 1..Len(streamers) : streamerCtxDone(s)
  \/ \E s \in 1..Len(streamers) : streamerFinished(s)
  \/ worker
  \/ DeviceAnswer
  \/ DeviceRetransmitInRange
  \/ DeviceFinishedAfterLast

\* the scheduler is fair to every goroutine, the timers fire, and the
\* device does answer and does send Finished
FairLive ==
  /\ WF_vars(printPackets(1))
  /\ WF_vars(\E l \in Jobs : runFSMEvent(l))
  /\ WF_vars(\E l \in Jobs : doneChSend(l))
  /\ WF_vars(\E w \in Waiters : sawReserve(w))
  /\ WF_vars(\E w \in Waiters : sawWrite(w) /\ nFail' = nFail)
  /\ WF_vars(\E w \in Waiters : sawSelect(w))
  /\ WF_vars(\E w \in Waiters : sawResponse(w))
  /\ WF_vars(\E w \in Waiters : sawTimeoutLate(w))
  /\ WF_vars(beginTask)
  /\ WF_vars(\E s \in 1..Len(streamers) : printBuffer(s))
  /\ WF_vars(\E s \in 1..Len(streamers) :
               streamerTick(s) /\ nFail' = nFail)
  /\ WF_vars(\E s \in 1..Len(streamers) : streamerCtxDone(s))
  /\ WF_vars(\E s \in 1..Len(streamers) : streamerFinished(s))
  /\ WF_vars(worker)
  /\ WF_vars(DeviceAnswer)
  /\ WF_vars(DeviceFinishedAfterLast)
SpecLive == Init /\ [][NextLive]_vars /\ FairLive

(* ------------------------------ IPP job ------------------------------- *)
\* the transitions of the job FSM
jobFsmEvts ==
  {[Name |-> "held", Src |-> {"Pending"}, Dst |-> "PendingHeld"],
   [Name |-> "resume", Src |-> {"PendingHeld"}, Dst |-> "Pending"],
   [Name |-> "process", Src |-> {"Pending"}, Dst |-> "Processing"],
   [Name |-> "stop", Src |-> {"Processing"}, Dst |-> "ProcessingStopped"],
   [Name |-> "resume", Src |-> {"ProcessingStopped"},
    Dst |-> "Processing"],
   [Name |-> "cancel", Src |-> {"Processing"}, Dst |-> "Cancelled"],
   [Name |-> "complete", Src |-> {"Processing"}, Dst |-> "Completed"],
   [Name |-> "abort", Src |-> {"Processing", "ProcessingStopped"},
    Dst |-> "Aborted"]}

\* fsm.Event looks the event up for the current state: the destination, or
\* "invalid" (InvalidEventError) when the event is not listed for it
Dst(cur, name) ==
  LET ds == {e.Dst : e \in {x \in jobFsmEvts :
                              x.Name = name /\ cur \in x.Src}}
  IN IF ds = {} THEN "invalid" ELSE CHOOSE d \in ds : TRUE

\* the FSM enters dst, then the callback registered for the event runs on
\* the job j (makeJobFSM; the callback of process is the action below)
Callback(name, j, dst, args) ==
  LET given(default) == IF args # <<>> THEN args ELSE default
  IN CASE name = "held" ->
            [j EXCEPT !.sm = dst, !.State = "PendingHeld",
               !.StateReasons = given(<<"job-held-until-specified">>)]
       [] name = "resume" -> [j EXCEPT !.sm = dst, !.State = "Pending"]
       [] name = "stop" ->
            [j EXCEPT !.sm = dst, !.State = "ProcessingStopped",
               !.StateReasons = given(<<"processing-to-stop-point">>)]
       [] name = "abort" ->
            [j EXCEPT !.sm = dst, !.State = "Aborted",
               !.StateReasons = given(<<"aborted-by-system">>)]
       [] name = "complete" ->
            [j EXCEPT !.sm = dst, !.State = "Completed",
               !.StateReasons = <<"job-completed-successfully">>]
       [] name = "cancel" ->
            [j EXCEPT !.sm = dst, !.State = "Cancelled",
               !.StateReasons = given(<<"job-cancelled-by-user">>)]

\* sm.Event(name, args...) run on the job j: the job afterwards (unchanged
\* when the event is invalid in the current state)
Event(name, j, args) ==
  IF Dst(j.sm, name) = "invalid" THEN j
  ELSE Callback(name, j, Dst(j.sm, name), args)

\* the reasons given as event arguments: none, or one reason
ReasonArgs == {<<>>, <<"other">>}

\* sm.Event of held, resume, stop, abort, complete or cancel, at any time,
\* also while the process callback is inside Print
jobEvent(name, args) ==
  /\ nEvt < MaxEvents
  /\ nEvt' = nEvt + 1
  /\ ippEvt' = [event |-> name, err |-> Dst(ippJob.sm, name) = "invalid"]
  /\ ippJob' = Event(name, ippJob, args)
  /\ UNCHANGED <<ippPrinter, ippPc>>
  /\ UNCHANGED <<image, packets, call, out, sessionVars>>

\* sm.Event(jobEvtProcess, ...): the callback sets the state and either
\* aborts at once (no data, or data of another type) or calls Print
jobEvtProcess(arg) ==
  /\ nEvt < MaxEvents
  /\ nEvt' = nEvt + 1
  /\ ippEvt' = [event |-> "process",
                err |-> Dst(ippJob.sm, "process") = "invalid"]
  /\ IF Dst(ippJob.sm, "process") = "invalid"
     THEN UNCHANGED <<ippJob, ippPrinter, ippPc>>
     ELSE LET j == [ippJob EXCEPT
                      !.sm = Dst(ippJob.sm, "process"),
                      !.State = "Processing",
                      !.StateReasons =
                         <<"job-printing", "job-transforming">>]
          IN IF arg # "data"
             THEN /\ ippJob' = Event("abort", j,
                                  <<"job-data-insufficient",
                                    "aborted-by-system">>)
                  /\ UNCHANGED <<ippPrinter, ippPc>>
             ELSE /\ ippJob' = [j EXCEPT !.buffer = "data"]
                  /\ ippPrinter' = "processing"
                  /\ ippPc' = "print"
  /\ UNCHANGED <<image, packets, call, out, sessionVars>>

\* Printer.Print returns inside the process callback: abort on an error,
\* complete otherwise; the printer is idle again
PrintReturns(ok) ==
  /\ ippPc = "print"
  /\ ippPc' = "idle"
  /\ ippPrinter' = "idle"
  /\ ippJob' = IF ok
               THEN Event("complete", [ippJob EXCEPT !.buffer = "nil"], <<>>)
               ELSE Event("abort", ippJob,
                          <<"document-format-error", "aborted-by-system">>)
  /\ UNCHANGED <<ippEvt, nEvt>>
  /\ UNCHANGED <<image, packets, call, out, sessionVars>>

NextIpp ==
  \/ \E name \in {"held", "resume", "stop", "abort", "complete", "cancel"} :
       \E args \in ReasonArgs : jobEvent(name, args)
  \/ \E arg \in {"none", "badtype", "data"} : jobEvtProcess(arg)
  \/ \E ok \in BOOLEAN : PrintReturns(ok)
SpecIpp == Init /\ [][NextIpp]_vars

(* ------------------------------ properties ---------------------------- *)
Contains(seq, x) == \E i \in 1..Len(seq) : seq[i] = x
Count(seq, x) == Cardinality({i \in 1..Len(seq) : seq[i] = x})
IsHandshakeFrame(f) == f[1] = 90 /\ f[2] \in {1, 10, 11, 12}
HandshakeFrames == SelectSeq(wire, IsHandshakeFrame)
\* a response with the 2-byte prefix of cmd was returned by sendAndWait
Acked(cmd) ==
  \E i \in 1..Len(acked) : /\ Len(acked[i]) >= 2
                           /\ acked[i][1] = cmd[1]
                           /\ acked[i][2] = cmd[2]
InitCompleteEmitted ==
  \/ \E j \in Jobs : \E i \in 1..Len(eventCh[j]) :
       eventCh[j][i].kind = "InitComplete"
  \/ beginPc # "none"
Running(s) == streamers[s].pc = "run" /\ ~streamers[s].cancelled

\* C1: for one print job the done signal is sent at most once, whatever
\* events are processed: transition executes p.doneCh <- struct{}{} at most
\* once per job.
C1_DoneSentOnce == \A j \in Jobs : hist.doneSends[j] <= 1

\* C2: the print call returns nil only when the session FSM reached
\* Completed; a session that ended in Failed never makes the call return nil.
C2_NilOnlyWhenCompleted ==
  \A j \in Jobs : result[j] = "nil" => state = "Completed"

\* C3: a print call made after a job has ended in Completed or Failed
\* starts from Idle: while the Start event of that call is still to be
\* processed, the FSM state is Idle (so that Start triggers the handshake).
C3_LaterJobStartsIdle ==
  (/\ job >= 2
   /\ hist.stateAtCall \in {"Completed", "Failed"}
   /\ Contains(eventCh[job], Evt("Start", <<>>))) => state = "Idle"

\* C4: the handshake frames on the link are the first frames of 5A 01..,
\* 5A 0A.., 5A 0B.., 5A 0C <energy>, in this order and each at most once;
\* frame n+1 is on the link only if a response with the 2-byte prefix of
\* frame n was received; InitComplete is emitted, and the begin command
\* 5A 04 <lh> <ll> 00 00 written, only after all four frames were written
\* and acknowledged.
C4_HandshakeOrder ==
  LET hs == HandshakeFrames IN
  /\ Len(hs) <= Len(initSeq)
  /\ \A n \in 1..Len(hs) : hs[n] = initSeq[n]
  /\ \A n \in 2..Len(hs) : Acked(initSeq[n - 1])
  /\ (InitCompleteEmitted \/ Contains(wire, beginCmd)) =>
       /\ Len(hs) = Len(initSeq)
       /\ \A n \in 1..Len(initSeq) : Acked(initSeq[n])

\* C4 witness: the begin command is on the link, after the four frames
C4_BeginAfterHandshake ==
  /\ Contains(wire, beginCmd)
  /\ Len(HandshakeFrames) = 4
  /\ wire[5] = beginCmd

\* C5: no image packet is on the link unless the begin command was written
\* and its 5A 04 response received; the begin command is written at most
\* once; its bytes 2-3 are the packet count, big-endian.
C5_BeginBeforePackets ==
  /\ PacketsOf(wire) # <<>> => (Contains(wire, beginCmd) /\ Acked(beginCmd))
  /\ Count(wire, beginCmd) <= 1
  /\ beginCmd[3] * 256 + beginCmd[4] = NPackets

\* C6: when Retransmit(k) is processed in Printing, the image packets put
\* on the link from then on are k, k+1, .., N-1 in this order (the cancelled
\* streamer adds none), as long as nothing else disturbs the job.
C6_RetransmitResumesAtK ==
  (hist.retrK >= 0 /\ Disturb = 1) =>
    LET pk == PacketsOf(wire) IN
    \A i \in (hist.retrAt + 1)..Len(pk) :
       pk[i] = hist.retrK + (i - hist.retrAt - 1)

\* C7: at every moment at most one streamer is running.
C7_OneStreamer ==
  Cardinality({s \in 1..Len(streamers) : Running(s)}) <= 1

\* C8: no image packet is written to the link while the FSM state is Paused.
C8_NoPacketWhilePaused ==
  [][state = "Paused" => PacketsOf(wire') = PacketsOf(wire)]_vars

\* C9: the FSM is in WaitingRetry only when packet N-1 was written and no
\* streamer is running; the end command is on the link only if a device
\* Finished (5A 06) was received and packet N-1 was written.
C9_EndAfterAllPackets ==
  /\ state = "WaitingRetry" =>
       /\ Contains(PacketsOf(wire), NPackets - 1)
       /\ \A s \in 1..Len(streamers) : ~Running(s)
  /\ Contains(wire, finalCmd) =>
       /\ hist.rxFinished
       /\ Contains(PacketsOf(wire), NPackets - 1)

\* C10: once a Cancel has been processed, nothing more is written to the
\* link: the link carries what it carried when the Cancel was processed.
C10_NoWriteAfterCancel ==
  hist.cancelAt >= 0 => Len(wire) = hist.cancelAt

\* C11: Completed and Failed are absorbing: a step taken while the state is
\* Completed or Failed leaves the state variable as it is.
C11_TerminalAbsorbing ==
  [][(state \in {"Completed", "Failed"}) => (state' = state)]_vars

\* C12: with a device that sends Hold, Retransmit(k), Finished (k = the
\* packets written so far) and no failed write, the image packets on the
\* link are 0, 1, 2, .. in this order, each once; when the job is Completed
\* all N are there.
C12_HoldResumeNoOverlapNoGap ==
  nFail = 0 =>
    LET pk == PacketsOf(wire) IN
    /\ \A i \in 1..Len(pk) : pk[i] = i - 1
    /\ (state = "Completed" /\ nNotif = 3) => Len(pk) = NPackets

\* a sendAndWait call that has reserved the slot and has no response yet
Outstanding(w) == saw[w].pc \in {"write", "sel", "wait"} /\ chanBuf[w] = <<>>

\* the expected prefix and the response channel are both set or both clear,
\* and at most one request is outstanding
SlotInv ==
  /\ (waitingPrefix = <<>>) <=> (responseCh = "nil")
  /\ Cardinality({w \in Waiters : Outstanding(w)}) <= 1

\* a call that finds the slot reserved returns at once, writes nothing and
\* leaves the reservation as it is (for the end command: the call made by
\* transition on Finished in WaitingRetry)
FailFast ==
  LET busyCall(w) == saw[w].pc = "call" /\ responseCh # "nil"
                     /\ saw'[w] # saw[w]
      busyEnd == state = "WaitingRetry" /\ state' = "Completed"
                 /\ responseCh # "nil"
  IN ((\E w \in Waiters : busyCall(w)) \/ busyEnd) =>
       /\ wire' = wire
       /\ responseCh' = responseCh
       /\ waitingPrefix' = waitingPrefix
       /\ chanBuf' = chanBuf
       /\ \A w \in Waiters : ~Outstanding(w) => ~Outstanding(w)'

\* C13: the pending-response slot is single-occupancy: the expected prefix
\* and the response channel are both set or both clear, at most one request
\* is outstanding, and a sendAndWait call made while the slot is reserved
\* fails at once, writes no bytes and leaves the reservation untouched.
C13_SlotSingleOccupancy == [][SlotInv' /\ FailFast]_vars

\* C13 witness: the end command was refused because the begin command held
\* the slot, which it still holds
C13_EndRefusedWhileBeginWaits ==
  /\ state = "Completed"
  /\ responseCh = "begin"
  /\ Outstanding("begin")
  /\ ~Contains(wire, finalCmd)
  /\ saw["end"] = IdleSaw

\* the frame matches the pending prefix (line 199)
Matches(value) ==
  waitingPrefix # <<>> /\ HasPrefix(value, waitingPrefix) /\ responseCh # "nil"

\* a frame enters the channel of waiter w only as the first frame with the
\* pending prefix that arrives while w holds the slot
DeliveredFirstMatch ==
  \A w \in Waiters :
    (chanBuf'[w] # chanBuf[w] /\ chanBuf'[w] # <<>>) =>
      /\ chanBuf[w] = <<>>
      /\ responseCh = w
      /\ Len(chanBuf'[w]) = 1
      /\ HasPrefix(chanBuf'[w][1], SubSeq(saw[w].cmd, 1, 2))

\* sendAndWait of w returns a response: it is the frame delivered to w
ReturnsOwnResponse ==
  \A w \in Waiters :
    (saw[w].pc = "wait" /\ saw'[w] # saw[w] /\ Len(acked') = Len(acked) + 1) =>
      /\ HasPrefix(acked'[Len(acked')], SubSeq(saw[w].cmd, 1, 2))
      /\ saw[w].sel = w
      /\ acked'[Len(acked')] = Head(chanBuf[w])

\* a frame that does not match the pending prefix reaches no waiter and is
\* classified: enqueued for the worker when its kind is Status, Finished,
\* Retransmit or Hold
UnmatchedClassified ==
  \A value \in DeviceFrames \cup OddFrames :
    (~Matches(value) /\ notificationCallback(value)) =>
      /\ chanBuf' = chanBuf
      /\ responseCh' = responseCh
      /\ waitingPrefix' = waitingPrefix
      /\ notification(value) \in {ntStatus, ntFinished, ntRetransmit, ntHold} =>
           notifyCh' = Append(notifyCh, [prefix |-> notification(value),
                                         data |-> value])

\* C14: sendAndWait returns successfully only with a frame that has the
\* expected 2-byte prefix, namely the first such frame that arrived after its
\* reservation; a frame that does not match the pending prefix is not given
\* to the waiter and is classified and enqueued like any other notification.
C14_FirstMatchingFrame ==
  [][DeliveredFirstMatch /\ ReturnsOwnResponse /\ UnmatchedClassified]_vars

\* sendAndWait of w returns after its write failed, with a response, or
\* with a timeout
Returns(w) ==
  saw[w].pc \in {"write", "wait"} /\ saw'[w].pc \in {"idle", "call"}
InCall(w) == saw[w].pc \in {"write", "sel", "wait"}

\* C15: when sendAndWait returns (response, write failure or timeout) its
\* reservation is gone, and with no other call in progress the slot is free
\* for the next call; a successful return carries a frame with the expected
\* prefix; a return without a response in the channel waited on is an error
\* return, reported as Error by the caller.
C15_SlotFreeOnReturn ==
  [][\A w \in Waiters : Returns(w) =>
       /\ responseCh' # w
       /\ (\A v \in Waiters \ {w} : ~InCall(v)) =>
            (responseCh' = "nil" /\ waitingPrefix' = <<>>)
       /\ Len(acked') = Len(acked) + 1 =>
            HasPrefix(acked'[Len(acked')], SubSeq(saw[w].cmd, 1, 2))
       /\ (saw[w].pc = "write" \/ saw[w].sel = "nil"
             \/ chanBuf[saw[w].sel] = <<>>) =>
            /\ acked' = acked
            /\ eventCh'[job] = Append(eventCh[job], ErrorEvt)]_vars

\* C15 witness: the first handshake call returned with its response, the
\* second wrote its frame and returned with a timeout; the slot is free
C15_ReturnedAfterTimeout ==
  /\ Len(acked) = 1
  /\ Len(wire) = 2
  /\ nFail = 0
  /\ initStep = 2
  /\ saw["init"] = IdleSaw
  /\ responseCh = "nil"
  /\ waitingPrefix = <<>>

\* C16: once a handshake step has failed (write failure or timeout) no
\* further handshake frame is written, no begin command and no image packet
\* is on the link, and Error has been fired: it is waiting in the event
\* queue or has been processed, leaving the job Failed with done signalled.
C16_HandshakeFailureStops ==
  hist.initFailed =>
    /\ saw["init"] = IdleSaw
    /\ Len(HandshakeFrames) <= initStep
    /\ ~Contains(wire, beginCmd)
    /\ PacketsOf(wire) = <<>>
    /\ beginPc = "none"
    /\ \/ Contains(eventCh[job], ErrorEvt)
       \/ state = "Failed" /\ hist.doneSends[job] >= 1

\* C16 witness: the write of the third handshake frame failed, the Error
\* was processed and done was signalled
C16_ThirdStepWriteFailed ==
  /\ hist.initFailed
  /\ initStep = 3
  /\ nFail = 1
  /\ Len(wire) = 2
  /\ eventCh[job] = <<>>
  /\ state = "Failed"
  /\ hist.doneSends[job] = 1

\* a status frame that carries no paper-out: paper present, or too short
QuietStatus(ntf) ==
  ntf.prefix = ntStatus /\ (Len(ntf.data) < 6 \/ ntf.data[4] = 0)

\* C17: once the Error of a paper-out status has been processed in a
\* non-terminal state the job is Failed with done signalled, and stays so;
\* a status frame without paper-out, or shorter than 6 bytes, is taken from
\* the notification queue without an event and without a change of state.
C17_PaperOutFails ==
  [][/\ hist'.paperOut = "processed" =>
          (state' = "Failed" /\ hist'.doneSends[job'] >= 1)
     /\ (notifyCh # <<>> /\ notifyCh' = Tail(notifyCh)
            /\ QuietStatus(Head(notifyCh))) =>
          (eventCh' = eventCh /\ state' = state)]_vars

IsPrefixOf(a, b) == Len(a) <= Len(b) /\ a = SubSeq(b, 1, Len(a))

\* C18: the Hold and Retransmit events processed by the FSM are, in order,
\* the first of the Hold and Retransmit frames that arrived (each stage
\* hands on the oldest frame it holds: the worker takes the head of the
\* notification queue and puts its event at the tail of the event queue,
\* the dispatch loop takes the head of the event queue); a Cooldown frame or
\* a frame of another kind changes neither the queues, the state, the
\* streamers nor the done signal.
C18_ArrivalOrderAndDrops ==
  [][/\ IsPrefixOf(hist'.fsm, hist'.rx)
     /\ (notifyCh # <<>> /\ notifyCh' = Tail(notifyCh)
            /\ Head(notifyCh).prefix \in {ntHold, ntRetransmit, ntFinished}
            /\ job # 0) =>
          eventCh'[job] = Append(eventCh[job], workerEvent(Head(notifyCh)))
     /\ \A value \in DeviceFrames \cup OddFrames :
          (/\ ~Matches(value)
           /\ notification(value) \notin
                 {ntStatus, ntFinished, ntRetransmit, ntHold}
           /\ notificationCallback(value)) =>
             /\ state' = state
             /\ streamers' = streamers
             /\ notifyCh' = notifyCh
             /\ eventCh' = eventCh
             /\ hist'.doneSends = hist.doneSends]_vars

\* C18 witness: a Hold frame and then a Retransmit frame arrived and were
\* processed, in this order; the job is printing again
C18_HoldThenRetransmitProcessed ==
  /\ Len(hist.fsm) = 2
  /\ hist.fsm[1].kind = "Hold"
  /\ hist.fsm[2].kind = "Retransmit"
  /\ hist.fsm = hist.rx
  /\ state = "Printing"

\* a Retransmit event whose frame has no index bytes or an index past the
\* last packet
Malformed(e) ==
  /\ e.kind = "Retransmit"
  /\ (Len(e.data) < 4 \/ e.data[3] * 256 + e.data[4] >= NPackets)

\* C19: when the dispatch loop takes a Retransmit event with a malformed
\* index, the event is dropped: the state, the streamers (none cancelled,
\* none started) and the cancel handle stay as they are.
C19_MalformedRetransmitDropped ==
  [][\A l \in Jobs :
       (/\ loop[l].pc = "select"
        /\ eventCh[loop[l].ch] # <<>>
        /\ Malformed(Head(eventCh[loop[l].ch]))
        /\ eventCh'[loop[l].ch] = Tail(eventCh[loop[l].ch])) =>
          /\ state' = state
          /\ streamers' = streamers
          /\ printCancel' = printCancel]_vars

LineOf(r, y) ==
  LET pk == r.packets[(y \div 2) + 1]
      off == 3 + 48 * (y % 2)
  IN [b \in 1..48 |-> pk[off + b]]
AllZero(line) == \A b \in 1..Len(line) : line[b] = 0
\* the lines the packets of r carry after the last line of the image
PaddingLines(r) == { y \in 0..(2 * Len(r.packets) - 1) : y >= image.h }
Ceil2(h) == (h + 1) \div 2

BitOf(line, x) == (line[(x \div 8) + 1] \div (2 ^ (7 - (x % 8)))) % 2

\* C23: for every packet i, line j in {0,1} and x in 0..383, bit
\* 7 - (x mod 8) of byte x/8 of the line is 1 exactly when y = 2i + j is
\* below the image height, x below the image width and pixel (x, y) has
\* grey < threshold; all other bits are 0.
C23_BitfieldIsImage ==
  \A r \in packets :
    \A n \in 1..Len(r.packets) : \A j \in {0, 1} : \A x \in 0..383 :
      LET y == 2 * (n - 1) + j
      IN BitOf(LineOf(r, y), x) = 1
           <=> (y < image.h /\ x < image.w /\ At(image, x, y) < 128)

\* C23 witness: a 9 x 2 image of greys around the threshold was packed:
\* line 0 is 11111111 0......., line 1 is 11111000 0.......
C23_GreysAroundThreshold ==
  /\ image = [w |-> 9, h |-> 2, pat |-> "grey"]
  /\ \E r \in packets :
       /\ LineOf(r, 0)[1] = 255 /\ LineOf(r, 0)[2] = 0
       /\ LineOf(r, 1)[1] = 248 /\ LineOf(r, 1)[2] = 0

\* the 48 bytes that the pixels of line y of img pack to, MSB first
PackedLine(img, y) ==
  [b \in 1..48 |->
     LET on(k) == IF At(img, 8 * (b - 1) + k, y) < 128 THEN 2 ^ (7 - k) ELSE 0
     IN on(0) + on(1) + on(2) + on(3) + on(4) + on(5) + on(6) + on(7)]
Repeat(byte, n) == [b \in 1..n |-> byte]

\* C22: resizing, dithering and serialising a 384-pixel-wide black/white
\* image of even height H gives exactly H/2 packets, packet i carrying
\* image lines 2i and 2i+1, with no trailing packet; for the 384 x 4
\* checkerboard these are 55 00 00 <48 x 55> <48 x AA> 00 and
\* 55 00 01 <48 x 55> <48 x AA> 00.
C22_NoTrailingPacket ==
  (call.op = "Rasterise" /\ image.w = 384 /\ image.h % 2 = 0) =>
    \A r \in out :
      /\ ~r.err
      /\ Len(r.packets) = image.h \div 2
      /\ \A n \in 1..Len(r.packets) :
           r.packets[n] = <<85, ((n - 1) \div 256) % 256, (n - 1) % 256>>
                            \o PackedLine(image, 2 * (n - 1))
                            \o PackedLine(image, 2 * (n - 1) + 1)
                            \o <<0>>
      /\ (image.pat = "checker" /\ image.h = 4) =>
           r.packets
             = << <<85, 0, 0>> \o Repeat(85, 48) \o Repeat(170, 48) \o <<0>>,
                  <<85, 0, 1>> \o Repeat(85, 48) \o Repeat(170, 48) \o <<0>> >>

\* C24: an image whose packet count exceeds 65535 is rejected with an
\* error before the session starts; so no two packets of a stream carry
\* the same 2-byte index and the length field of the begin/end command is
\* the true packet count.
C24_PacketCountFits16Bits ==
  call.op = "PrintImage" =>
    \A r \in out :
      /\ (image.w <= 384 /\ (image.h + 2 - (image.h % 2)) \div 2 > 65535)
           => (r.err /\ ~r.started)
      /\ r.started =>
           /\ \A m, n \in DOMAIN r.prefix :
                m # n => r.prefix[m] # r.prefix[n]
           /\ LengthField(r.buflen)[1] * 256 + LengthField(r.buflen)[2]
                = r.buflen

\* C25: a dither name that is not a registered algorithm is returned to
\* the caller as an error at construction; it is never silently replaced
\* by the default dither.
C25_UnknownDitherIsError ==
  (call.op = "NewLXD02" /\ call.name # ""
     /\ call.name \notin {"floyd-steinberg", "atkinson", "stucki", "bayer",
                           "no-dither"}) =>
    \A r \in out : r.err /\ r.DitherFunc # "ditherimg"

\* C26: a print request for an empty image (height 0) or for an empty raw
\* buffer returns an error synchronously: the FSM is not started and no
\* byte is written to the link.
C26_EmptyInputRejected ==
  (\/ call.op = "PrintImage" /\ image.h = 0
   \/ call.op = "PrintRAW" /\ call.data = <<>>) =>
    /\ \A r \in out : r.err /\ ~r.started
    /\ wire = <<>>

\* C27: Enumerate wraps input block i (i = 0, 1, 2, .. in input order) as
\* 0x55, (i>>8)&0xFF, i&0xFF, the 96 block bytes unchanged, 0x00; if any
\* block is not exactly 96 bytes long it returns an error and no packets.
C27_EnumerateWraps ==
  call.op = "Enumerate" =>
    \A r \in out :
      IF \A n \in 1..Len(call.data) : Len(call.data[n]) = 96
      THEN /\ ~r.err
           /\ Len(r.packets) = Len(call.data)
           /\ \A n \in 1..Len(call.data) :
                /\ Len(r.packets[n]) = 100
                /\ SubSeq(r.packets[n], 1, 3)
                     = <<85, ((n - 1) \div 256) % 256, (n - 1) % 256>>
                /\ SubSeq(r.packets[n], 4, 99) = call.data[n]
                /\ r.packets[n][100] = 0
      ELSE r.err /\ r.packets = <<>>

\* C27 witness: three blocks of 96 bytes were wrapped, the ramp last
C27_ThreeBlocksWrapped ==
  /\ call.op = "Enumerate"
  /\ Len(call.data) = 3
  /\ \E r \in out :
       /\ ~r.err
       /\ r.packets[3][2] = 0 /\ r.packets[3][3] = 2
       /\ r.packets[3][4] = 1 /\ r.packets[3][99] = 96

\* C28: ResizeToFit never upscales: for an input of width <= target the
\* output is exactly target wide and as high as the input, the original
\* pixels are unchanged at offset (0,0) and every other pixel is white.
C28_NeverUpscales ==
  (call.op = "ResizeToFit" /\ image.w <= call.targetWidth) =>
    \A r \in out :
      /\ r.w = call.targetWidth
      /\ r.h = image.h
      /\ \A p \in Pixels(r.w, r.h) :
           At(r, p[1], p[2])
             = IF p[1] < image.w /\ p[2] < image.h
               THEN At(image, p[1], p[2]) ELSE 255

\* C28 witness: a 9 x 2 checkerboard was put on a 384-wide canvas
C28_CheckerOnCanvas ==
  /\ call.op = "ResizeToFit"
  /\ call.targetWidth = 384
  /\ image = [w |-> 9, h |-> 2, pat |-> "checker"]
  /\ \E r \in out :
       /\ r.w = 384 /\ r.h = 2
       /\ At(r, 1, 0) = 0 /\ At(r, 8, 1) = 0 /\ At(r, 9, 1) = 255

\* C29: for an input wider than W, ResizeToFit returns an image exactly W
\* wide whose height is round(input_height * W / input_width), rounded to
\* nearest, not truncated.
C29_HeightRounded ==
  (call.op = "ResizeToFit" /\ image.w > call.targetWidth) =>
    \A r \in out :
      /\ r.w = call.targetWidth
      /\ r.h = (2 * image.h * call.targetWidth + image.w) \div (2 * image.w)

\* C30: thresholding is idempotent: DitherThresholdFn(t) applied to an
\* output of DitherThresholdFn(t) returns an image with the same pixel at
\* every position.
C30_ThresholdIdempotent ==
  call.op = "DitherThresholdFn" =>
    \A r \in out :
      /\ r.twice.w = r.once.w
      /\ r.twice.h = r.once.h
      /\ \A p \in Pixels(r.once.w, r.once.h) :
           At(r.twice, p[1], p[2]) = At(r.once, p[1], p[2])

\* C30 witness: greys around the threshold were thresholded twice at 128;
\* pixel (7,0) of grey 127 is black and pixel (8,0) of grey 128 is white
C30_GreysThresholdedTwice ==
  /\ call.op = "DitherThresholdFn"
  /\ call.threshold = 128
  /\ image = [w |-> 9, h |-> 2, pat |-> "grey"]
  /\ \E r \in out :
       /\ At(r.once, 7, 0) = 0 /\ At(r.once, 8, 0) = 255
       /\ At(r.twice, 7, 0) = 0 /\ At(r.twice, 8, 0) = 255


\* C31: with the crop option on (composer made with WithComposerCrop(TRUE),
\* driver made with WithCrop(TRUE)) an image wider than the canvas or the
\* print width keeps its height and is cut at the right margin; with the
\* option off it is rescaled to the width.
C31_CropInsteadOfRescale ==
  /\ (call.op = "AppendImageDither" /\ image.w > LineWidth) =>
       \A r \in out :
         IF call.crop
         THEN r.drawn.w = image.w /\ r.drawn.h = image.h
         ELSE r.drawn.w = LineWidth
  /\ (call.op = "PrintImage" /\ image.w > LineWidth) =>
       \A r \in out :
         IF call.crop
         THEN ~r.err /\ r.width = LineWidth /\ r.height = image.h
         ELSE r.width = LineWidth

\* C32: the state mutex is never held across a network wait: no dispatch
\* loop holds stateMu while its sendAndWait (the end-of-transmission
\* command is the only one a loop makes) waits for the response or the
\* timeout.
C32_NoWaitUnderStateMu ==
  saw["end"].pc = "wait" => stateMu = 0

\* the last element of a sequence that is not empty
Last(seq) == seq[Len(seq)]

\* the step in which streamer s leaves its loop and emits an event
Emits(s) ==
  /\ s <= Len(streamers)
  /\ streamers[s].pc = "run"
  /\ streamers'[s].pc = "exit"
  /\ eventCh' # eventCh

\* the streamer's index moves by one write at a time, each write is the
\* packet at the index, which is below the packet count, and Finished is
\* emitted with every packet up to the last written
StreamerInOrder(s) ==
  /\ streamers'[s].i \in {streamers[s].i, streamers[s].i + 1}
  /\ streamers'[s].i = streamers[s].i + 1 =>
       /\ streamers[s].i < NPackets
       /\ wire' = Append(wire, buffer[streamers[s].i])
  /\ (Emits(s) /\ Last(eventCh'[job]).kind = "Finished") =>
       streamers[s].i = NPackets

\* C33: each streamer writes the packets from its start index in
\* consecutive increasing order, never reads an index >= NPackets, emits
\* Finished only after packet NPackets - 1 is written, and once cancelled
\* emits neither Finished nor Error.
C33_StreamerOrderAndCancel ==
  [][\A s \in 1..Len(streamers) :
       /\ StreamerInOrder(s)
       /\ Emits(s) => ~streamers[s].cancelled]_vars

\* the first three parts of C33 alone
C33_StreamerOrder ==
  [][\A s \in 1..Len(streamers) : StreamerInOrder(s)]_vars

\* the outcome of the send of the packet at index i of a streamer call
Failed3(i) == \A a \in 1..maxRetries : ~call.attempts[i][a]
FirstOk(i) ==
  CHOOSE a \in 1..maxRetries :
    /\ call.attempts[i][a]
    /\ \A b \in 1..(a - 1) : ~call.attempts[i][b]

\* C34: every send of a streamer makes at most maxRetries writes and stops
\* at the first that succeeds; it fails exactly when all of them fail; the
\* streamer whose send of packet i fails emits Error and has written the
\* packets before i only, otherwise it emits Finished.
C34_SendRetriesThenError ==
  (call.op = "printBuffer" /\ call.start < NPackets) =>
    \A r \in out :
      /\ \A n \in 1..Len(r.tries) :
           LET i == call.start + n - 1
           IN /\ r.tries[n] <= maxRetries
              /\ r.tries[n] = IF Failed3(i) THEN maxRetries ELSE FirstOk(i)
              /\ Failed3(i) <=> (r.event = "Error" /\ n = Len(r.tries))
      /\ \A n \in 1..Len(r.written) : r.written[n] = call.start + n - 1
      /\ r.event = "Error" =>
           /\ Len(r.tries) = Len(r.written) + 1
           /\ \A n \in 1..Len(r.written) :
                r.written[n] < call.start + Len(r.tries) - 1
      /\ r.event = "Finished" =>
           /\ Len(r.tries) = Len(r.written)
           /\ call.start + Len(r.written) = NPackets

\* C34 witness: the first packet goes out at the second attempt, the send
\* of the second packet fails three times and the streamer emits Error
C34_SecondPacketFails ==
  /\ call.op = "printBuffer"
  /\ \E r \in out : /\ r.tries = <<2, maxRetries>>
                     /\ r.written = <<0>>
                     /\ r.event = "Error"

\* C35: when the caller's token has fired while a handshake step or the
\* begin command waits for its response, the wait ends and the slot is
\* released, with no need of a matching frame or of the 3-s timeout (the
\* scheduler is fair to the tasks, not to the timers or the device).
C35_CancelInterruptsWait ==
  \A w \in {"init", "begin"} :
    (job # 0 /\ ctxDone[job] /\ saw[w].pc = "wait")
      ~> (saw[w].pc # "wait" /\ responseCh # w)

\* C36: when the end-of-transmission command has failed (its write failed
\* or its response did not come in time) and the dispatch loop has taken
\* every event, the job is Failed, not Completed, and done was signalled.
C36_EndFailureFailsJob ==
  (/\ hist.endFailed
   /\ eventCh[job] = <<>>
   /\ loop[job].pc \in {"select", "exit"})
    => (state = "Failed" /\ hist.doneSends[job] > 0)

\* C37: the first job on a fresh driver, with writes that succeed and a
\* device that answers every command, asks for in-range retransmissions
\* finitely often and sends Finished after the last packet, eventually
\* reaches Completed with done signalled and the print call returned.
C37_FirstJobCompletes ==
  (job = 1) ~> (/\ state = "Completed"
                /\ hist.doneSends[1] > 0
                /\ callerPc = "idle")

\* C38: once the print call has returned on its cancelled context, no
\* dispatch loop is blocked in a send on that call's done channel, which
\* nobody receives from any more, with the state mutex held.
C38_NoSendToDepartedCaller ==
  (job # 0 /\ ctxDone[job] /\ callerPc = "idle" /\ result[job] = "error")
    => \A l \in Jobs :
         ~(/\ loop[l].pc \in {"done124", "done149", "done190"}
           /\ loop[l].dch = job
           /\ stateMu = l)

\* C39: a sendAndWait call that ends while another call holds the slot
\* (its own response was delivered and the slot reserved again since)
\* leaves that call's expected prefix and response channel in place.
C39_ClearsOwnReservationOnly ==
  [][\A w \in Waiters :
       (/\ saw[w].pc \in {"write", "wait"}
        /\ saw'[w] # saw[w]
        /\ responseCh \notin {"nil", w})
         => (responseCh' = responseCh /\ waitingPrefix' = waitingPrefix)]_vars

\* C40: after every event the job FSM accepts, Job.State equals the FSM's
\* current state (after resume from processing-stopped it is processing),
\* and a job whose FSM is in a terminal state accepts no further event.
C40_StateFollowsFsm ==
  [][/\ ippJob'.State = ippJob'.sm
     /\ ippJob.sm \in {"Completed", "Cancelled", "Aborted"} =>
          (ippJob'.sm = ippJob.sm /\ ippJob'.State = ippJob.State)]_vars

\* the second part of C40 alone
C40_TerminalAcceptsNothing ==
  [][ippJob.sm \in {"Completed", "Cancelled", "Aborted"} =>
       (ippJob'.sm = ippJob.sm /\ ippJob'.State = ippJob.State)]_vars
====
